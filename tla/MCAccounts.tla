----------------------------- MODULE MCAccounts -----------------------------
(* Instances of Accounts for TLC.                                           *)
EXTENDS Accounts, TLC

CONSTANTS r1, r2, r3, k1, google1, p1, p2

(* Two spellings of one address.                                            *)
MCEmails == {"ada", "Ada"}
MCLower  == [e \in MCEmails |-> "ada"]
MCMethods == {"email_password", "google"}

Symmetry == Permutations(Requests)

(* Every endpoint, with the collisions that matter: one key with either     *)
(* address, one address with or without a key or a password, the identity   *)
(* of one Google account under either address.                              *)
MCCalls ==
    {c \in CreateCall : c.key # google1 /\ (c.key = k1 => c.method = "email_password")}
    \cup {c \in SignupCall : c.password = p1}
    \cup {c \in GoogleCall : c.key = google1}
    \cup {c \in LoginCall : c.email = "ada"}
    \cup {c \in PatchCall : c.email = "ada"}
    \cup {c \in LookupCall : c.email = "Ada" /\ c.method = "google"}

(* The fewest requests that show each disagreement.                         *)
SignupCalls == SignupCall
GoogleCalls == GoogleCall
LoginCalls == CreateCall \cup GoogleCall \cup LoginCall
=============================================================================
