--------------------------- MODULE MCAuthSecurity ---------------------------
\* Instances of AuthSecurity for TLC.
EXTENDS AuthSecurity, TLC

CONSTANTS c1, c2

MCProcessOf == [c \in Callers |-> CHOOSE p \in Processes : TRUE]
Symmetric == Permutations(Callers)

MCLimit == [rule \in Rules |-> CASE rule = "login_ip" -> 3
                                 [] rule = "request_email" -> 1
                                 [] OTHER -> 2]
=============================================================================
