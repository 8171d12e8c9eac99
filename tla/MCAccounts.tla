----------------------------- MODULE MCAccounts -----------------------------
(* One web email and two WeChat identities of one person, who has one phone. *)
EXTENDS Accounts, TLC

CONSTANTS e1, w1, w2, p1, n1, n2, x1, c1
MCUnionOf == w1 :> x1 @@ w2 :> x1
MCNickOf == w1 :> n1 @@ w2 :> n2

\* n2 is also the nickname web users want and w1's user changes to.
MCCalls ==
  {[kind |-> "captcha", email |-> e1],
   [kind |-> "register", email |-> e1, nick |-> n2, code |-> c1],
   [kind |-> "script", email |-> e1, nick |-> n2, phone |-> p1, openid |-> None, union |-> None],
   [kind |-> "script", email |-> e1, nick |-> n2, phone |-> None, openid |-> w1, union |-> None],
   [kind |-> "profile", email |-> w1, nick |-> n2],
   [kind |-> "profile", email |-> e1, nick |-> None]}
  \cup [kind : {"bind"}, openid : {w1, w2}, phone : {p1}, union : {None}]
  \cup [kind : {"signin"}, openid : {w1, w2}, phone : {None}, union : {x1}]
=============================================================================
