------------------------------ MODULE MCRoutes ------------------------------
(* Instances of Routes for TLC: two sites at most to begin with, three     *)
(* names, one certificate that can be imported.                            *)
EXTENDS Routes, TLC

CONSTANTS h1, h2, h3, n1, n2, n3, cert, app

ThreeHandlers == {h1, h2, h3}
ThreeNames  == {n1, n2, n3}
OneCert     == {cert}
OneApp      == {app}

S(d, aliases, tls) == [domain |-> d, aliases |-> aliases, tls |-> tls, app |-> NoApp]
Holding(sites, n) == [sites |-> sites, certs |-> [c \in Certs |-> n], dh |-> 0]

(* One site with an alias and another one with the certificate.            *)
Two == Holding(<<S(n1, {n2}, SelfSigned), S(n3, {}, cert)>>, 1)
One == Holding(<<S(n1, {n2}, SelfSigned)>>, 0)

(* States of a PUT that lack a certificate, or have a name twice.          *)
Lacking == [Two EXCEPT !.certs[cert] = 0]
Doubled == Holding(<<S(n1, {n2}, SelfSigned), S(n2, {}, SelfSigned)>>, 1)

Sitewise ==
  [kind : {"create"}, site : {S(n2, {}, SelfSigned), S(n3, {n2}, cert)}]
  \cup [kind : {"tls"}, name : {n1, n3}, cert : {cert, SelfSigned}]
  \cup [kind : {"aliases"}, name : {n1, n2}, aliases : {{}, {n3}}]
  \cup [kind : {"delete"}, name : {n2, n3}]
  \cup [kind : {"deploy"}, name : {n1}, app : {app}]
Certwise ==
  [kind : {"import", "remove"}, cert : {cert}]
Replacing == [kind : {"replace"}, state : {One, Two}]

(* Requests one after the other, an error of the disk or a crash anywhere. *)
Serial == [state |-> Two, requests |-> Sitewise \cup Certwise \cup Replacing,
           count |-> 3, atOnce |-> 1, faults |-> {"write", "crash"},
           maxFaults |-> 1]

(* Two requests at once, an error or a crash anywhere.                     *)
AtOnce == [Serial EXCEPT !.atOnce = 2, !.count = 2]

(* Any state may be PUT, and any other request come before or after it.    *)
Unchecked ==
  [Serial EXCEPT
     !.requests = Sitewise \cup Certwise
                  \cup [kind : {"replace"}, state : {Lacking, Doubled}]]

(* Three requests at once; nothing fails.                                  *)
Three ==
  [Serial EXCEPT
     !.requests = {[kind |-> "create", site |-> S(n2, {}, cert)],
                   [kind |-> "tls", name |-> n1, cert |-> cert],
                   [kind |-> "tls", name |-> n3, cert |-> SelfSigned],
                   [kind |-> "aliases", name |-> n1, aliases |-> {}],
                   [kind |-> "delete", name |-> n2]}
                  \cup Certwise,
     !.atOnce = 3, !.faults = {}]

(* The parameters, set by requests, by the worker and with the state.      *)
Params ==
  [state |-> One,
   requests |-> [kind : {"params", "generate"}, id : {0}]
                \cup [kind : {"replace"}, state : {One}]
                \cup [kind : {"import"}, cert : {cert}],
   count |-> 3, atOnce |-> 2, faults |-> {"write", "crash"}, maxFaults |-> 1]

ParamsInTurn == [Params EXCEPT !.atOnce = 1, !.count = 4]

Environments ==
  {Serial, Unchecked, AtOnce, [AtOnce EXCEPT !.state = One], Three, Params, ParamsInTurn}
Symmetry     == Permutations(ThreeHandlers)
=============================================================================
