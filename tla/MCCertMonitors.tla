--------------------------- MODULE MCCertMonitors ---------------------------
(* Instances of CertMonitors for TLC: the node and a site.                 *)
EXTENDS CertMonitors, TLC

CONSTANTS node, site

AllClients  == Monitors \cup {"sync"}
TwoNames    == {node, site}
TwoChecks   == <<1, 2>>

(* A site that asks for an ACME certificate while there is none of its     *)
(* own; the tickers do not tick.                                           *)
Acme == [names |-> {site}, tls |-> (node :> "selfsigned" @@ site :> "selfsigned"),
         left |-> Absent,
         requests |-> {"acme", "selfsigned"}, changes |-> 2, days |-> 0,
         ticks |-> FALSE, faults |-> {"crash", "job"}, maxFaults |-> 1]

(* The node and a site start with certificates that have expired.          *)
Expired == [names |-> TwoNames, tls |-> (node :> "selfsigned" @@ site :> "acme"),
            left |-> 0, requests |-> {}, changes |-> 0, days |-> 0,
            ticks |-> FALSE, faults |-> {"crash", "job"}, maxFaults |-> 1]

(* Days pass until a certificate expires: the site's, then the node's.     *)
Renewal == [names |-> {site},
            tls |-> (node :> "acme" @@ site :> "selfsigned"), left |-> 2,
            requests |-> {"acme"}, changes |-> 1, days |-> 2, ticks |-> TRUE,
            faults |-> {"crash", "job"}, maxFaults |-> 1]

OfNode == [Renewal EXCEPT !.names = {node}, !.faults = {"crash"}]

(* An imported certificate expires, is lost with the state or replaced.     *)
Imported == [Renewal EXCEPT !.tls = (node :> "acme" @@ site :> "imported"),
                            !.requests = {"import", "replace"},
                            !.changes = 2, !.faults = {"crash"}]

(* The state is replaced by one without secrets while the certificate on   *)
(* the disk is to be renewed.                                              *)
Replaced == [Renewal EXCEPT !.requests = {"replace"}, !.days = 1,
                            !.faults = {}]

Environments == {Acme, Expired, Renewal, OfNode, Imported, Replaced}
SameJob      == {Replaced}
=============================================================================
