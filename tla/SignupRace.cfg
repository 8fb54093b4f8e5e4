SPECIFICATION Spec
CONSTANTS
    r1 = r1  r2 = r2  r3 = r3
    Requests = {r1, r2}
    Emails <- MCEmails
    Lower <- MCLower
    k1 = k1  google1 = google1
    Keys = {k1, google1}
    p1 = p1  p2 = p2
    Passwords = {p1, p2}
    Methods <- MCMethods
    Calls <- SignupCalls
    NoRow = NoRow  NoKey = NoKey  NoPassword = NoPassword
    Nobody = Nobody  NoReply = NoReply
INVARIANT SignupConflictIs409
CHECK_DEADLOCK FALSE
