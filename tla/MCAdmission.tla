----------------------------- MODULE MCAdmission -----------------------------
(* An instance of Admission for TLC. *)
EXTENDS AdmissionProperties

\* Of five bits: sizes run from -16 to 15.  The floats are exact up to 4 and then
\* the multiples of 4: a stated 11 is rounded up, and 19 does not fit.
Lowest == -16
Nearest == [n \in Written |-> IF n <= Precise THEN n ELSE 4 * ((n + 2) \div 4)]

\* Every policy of one place under one way to boot ...
Policies == [driver : {"fs"}, flags : {{"anonymous", "oidc"}}, backend : {"sqlite"},
             service : {FALSE}, secret : {FALSE},
             places : UNION {[{n} -> Definition] : n \in Names},
             default : Names \union {None}, max : Written, quota : Written,
             overrides : [Users -> Written \union {None}]]

\* ... and every way to boot, with no place, one, two, or a strategy unknown.
Plain   == [strategy |-> "", max |-> 0, identity |-> FALSE]
Account == [Plain EXCEPT !.strategy = "account"]
Unknown == [Plain EXCEPT !.strategy = "other"]
Boots == [driver : {"fs", "s3", "other"}, flags : SUBSET {"anonymous", "oidc", "api_key"},
          backend : {"sqlite", "postgres", "other"}, service : BOOLEAN, secret : BOOLEAN,
          places : {<<>>} \union [{"a"} -> {Plain}] \union [{"a", "b"} -> {Account}]
                     \union [{"a", "b"} -> {Unknown}],
          default : Names \union {None}, max : {0}, quota : {3}, overrides : [Users -> {None}]]

PoliciesAndBoots == Policies \union Boots
=============================================================================
