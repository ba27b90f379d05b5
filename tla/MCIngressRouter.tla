--------------------------- MODULE MCIngressRouter ---------------------------
(* Small instances of IngressRouter: a and b share tenant and key, c has   *)
(* their key and another tenant, d another tenant and key that make the     *)
(* cache key of a and b.  e is a, had its client not mistaken the address   *)
(* for a phone number.                                                      *)
EXTENDS IngressRouter

CONSTANTS a, b, c, d, e

\* t and key:k; u and key:k; t:key and k.
TenantOf == [r \in Requests |-> CASE r = c -> <<"u">>
                                  [] r = d -> <<"t", "key">>
                                  [] OTHER -> <<"t">>]
KeyOf    == [r \in Requests |-> IF r = d THEN <<"k">> ELSE <<"key", "k">>]

Mail(toAddress) == [complete |-> TRUE, channel |-> "email",
                    mailAddress |-> toAddress, blank |-> FALSE]
ContentOf == [r \in Requests |-> Mail(r # e)]
=============================================================================
