---------------------------- MODULE MCCredentials ----------------------------
(* Values for checking Credentials: two users, two keys, a JWT of every kind  *)
(* that ValidateJWT tells apart, and requests with any one or two of these.   *)
EXTENDS Credentials, TLC

CONSTANTS ann, bob, nobody, k1, k2, h1, h2

Jwt(user, iat, exp, ours) == [user |-> user, iat |-> iat, exp |-> exp, ours |-> ours]

\* Short, long, of an unknown user, from a clock that is ahead, forged.
MCTokens ==
    {Jwt(ann, 0, 1, TRUE), Jwt(bob, 0, 2, TRUE), Jwt(nobody, 0, 2, TRUE),
     Jwt(ann, 1, 2, TRUE), Jwt(ann, 0, 2, FALSE)}

Wrong == [dev |-> ann]

\* A header that names a scheme comes with one more credential at most; what an
\* API key header holds is only ever tried as a key: one value that is none will do.
Cookies == Keys \cup {Jwt(ann, 0, 1, TRUE), Jwt(bob, 0, 2, TRUE), [dev |-> bob]}

Headers(schemes, values, xKeys, cookies) ==
    {[scheme |-> s, value |-> v, xKey |-> x, cookie |-> c] :
        s \in schemes, v \in values, x \in xKeys, c \in cookies}

MCRequests ==
    UNION {Headers({"Bearer"}, Values, Keys \cup {Wrong, None}, {None}),
           Headers({"Bearer"}, Values, {None}, Cookies),
           Headers({"ApiKey"}, Keys \cup {Wrong}, Keys \cup {Wrong, None}, {None}),
           Headers({"ApiKey"}, Keys \cup {Wrong}, {None}, Cookies),
           Headers({"none", "other"}, {Wrong}, Keys \cup {Wrong, None}, Cookies \cup {None})}

Symmetry == Permutations(Keys) \cup Permutations(Handlers)
=============================================================================
