------------------------------- MODULE Routes -------------------------------
(***************************************************************************)
(* The handlers of the API that change the state (src/api/routes), and the *)
(* worker that generates DH parameters (src/worker/dhparams.go), over the  *)
(* store of a node that runs alone.                                        *)
(*                                                                         *)
(* A handler first looks at the state (is the domain free, does the site   *)
(* exist, does the certificate), then calls an operation of the manager,   *)
(* which changes the object in memory and writes the file, and then queues *)
(* a synchronization.  Handlers run concurrently, and nothing excludes one *)
(* from another.  The worker is a handler whose request comes with time.    *)
(***************************************************************************)
EXTENDS FileStore

CONSTANTS
  Handlers,   (* goroutines that handle requests                           *)
  Scenarios   (* a set of the records below                                *)

(* No two sites have a name in common.                                     *)
Unique(s) ==
  \A i, j \in DOMAIN s.sites :
    i # j => NamesOf(s.sites[i]) \cap NamesOf(s.sites[j]) = {}

(* The certificate of a site is there.                                     *)
HasCert(s, t) == t = SelfSigned \/ s.certs[t] # 0

(* The certificates that a state has sites for, and does not have.         *)
Bare(s) == {t \in {s.sites[i].tls : i \in DOMAIN s.sites} : ~HasCert(s, t)}

(* A request: its kind and what it needs.  The number of the parameters is *)
(* given to them when they are made; "generate" is the worker's.           *)
Request ==
  [kind : {"create"}, site : Site]
  \cup [kind : {"tls"}, name : Names, cert : Certs \cup {SelfSigned}]
  \cup [kind : {"aliases"}, name : Names, aliases : SUBSET Names]
  \cup [kind : {"deploy"}, name : Names, app : Apps]
  \cup [kind : {"delete"}, name : Names]
  \cup [kind : {"import", "remove"}, cert : Certs]
  \cup [kind : {"replace"}, state : State]
  \cup [kind : {"params", "generate"}, id : Nat]

Patches   == {"tls", "aliases", "deploy"}
SiteKinds == Patches \cup {"create", "delete"}
Kinds     == SiteKinds \cup {"import", "remove", "replace", "params", "generate"}

(* The state when the process starts; the requests that may come, how many *)
(* of them, how many at once; what may fail, how often.                    *)
Fields == {"state", "requests", "count", "atOnce", "faults", "maxFaults"}

(* The handler does not look at what a state says that is sent to replace  *)
(* another one: it is any state, like the one in the file.                 *)
ASSUME RoutesAssumption ==
  \A s \in Scenarios :
    /\ DOMAIN s = Fields /\ s.atOnce \in Nat \ {0}
    /\ s.state \in State /\ s.requests \subseteq Request

VARIABLES
  at,         (* what each handler does                                    *)
  queued,     (* a sync has been asked for and has not begun               *)
  applied,    (* what the last sync has read                               *)
  aged,       (* DH parameters past their maximal age                      *)
  mute,       (* history: DH parameters were set, with no sync since       *)
  may,        (* history: the states that the answers given so far allow   *)
  met,        (* history: the kinds of requests that were handled at once  *)
  given,      (* history: the states that came from outside, with the file *)
              (* or with a request                                         *)
  erred,      (* history: a request has ended with an error of the server  *)
  scenario, count, faults

routeVars == <<at, queued, applied, aged, mute, may, met, given, erred, scenario,
               count, faults>>
vars == <<storeVars, routeVars>>

Places == {"idle", "get", "names", "cert", "used", "check", "generate", "find",
           "store", "sites", "secrets", "write", "queue"}

NoRequest == [kind |-> "none"]
NoSite    == [domain |-> "none"]
NoState   == [sites |-> <<>>, certs |-> [c \in Certs |-> 0], dh |-> 0]

(* A handler: its place, its request, its copy of the site, the names it   *)
(* has still to look at, what it has read of the state (the object, an     *)
(* index, the sites, the parameters), what it writes.                      *)
Handler ==
  [pc : Places, req : Request \cup {NoRequest}, site : Site \cup {NoSite},
   todo : SUBSET Names, object : Nat, index : Nat, read : Seq(Site),
   seen : Nat, data : State]

Idle == [pc |-> "idle", req |-> NoRequest, site |-> NoSite, todo |-> {},
         object |-> 0, index |-> 0, read |-> <<>>, seen |-> 0, data |-> NoState]

TypeOK ==
  /\ StoreTypeOK
  /\ at \in [Handlers -> Handler]
  /\ queued \in BOOLEAN /\ erred \in BOOLEAN /\ mute \in BOOLEAN
  /\ aged \subseteq Nat
  /\ met \subseteq SUBSET Kinds /\ given \subseteq State
  /\ scenario \in Scenarios /\ count \in Nat

Busy == {h \in Handlers : at[h].pc # "idle"}

(* What a sync makes of a state: its sites, each with its certificate, and *)
(* the file of the DH parameters.                                          *)
Deployed(s) ==
  [dh |-> s.dh,
   sites |-> {[site |-> s.sites[i],
               cert |-> IF s.sites[i].tls \in Certs THEN s.certs[s.sites[i].tls]
                                                    ELSE 0] : i \in DOMAIN s.sites}]

-----------------------------------------------------------------------------
(* What a request promises, for a set of sites, when the parameters in old *)
(* have reached their maximal age.                                         *)
Abstract(s) == [sites |-> {s.sites[i] : i \in DOMAIN s.sites},
                certs |-> s.certs, dh |-> s.dh]

Named(sites, n) == {s \in sites : n \in NamesOf(s)}

(* The site with what the request changes.                                 *)
Patched(site, r) ==
  CASE r.kind = "tls"     -> [site EXCEPT !.tls = r.cert]
    [] r.kind = "aliases" -> [site EXCEPT !.aliases = r.aliases]
    [] r.kind = "deploy"  -> [site EXCEPT !.app = r.app]

Granted(p, r, old) ==
  CASE r.kind = "create"  -> /\ HasCert(p, r.site.tls)
                             /\ \A n \in NamesOf(r.site) : Named(p.sites, n) = {}
    [] r.kind = "tls"     -> Named(p.sites, r.name) # {} /\ HasCert(p, r.cert)
    [] r.kind = "aliases" -> /\ Named(p.sites, r.name) # {}
                             /\ \A a \in r.aliases :
                                  Named(p.sites, a) \subseteq Named(p.sites, r.name)
    [] r.kind \in {"deploy", "delete"} -> Named(p.sites, r.name) # {}
    [] r.kind = "remove"  -> /\ p.certs[r.cert] # 0
                             /\ \A s \in p.sites : s.tls # r.cert
    [] r.kind = "generate" -> p.dh \in {0} \cup old
    [] OTHER -> TRUE

Effect(p, r) ==
  CASE r.kind = "create"  -> [p EXCEPT !.sites = @ \cup {r.site}]
    [] r.kind \in Patches ->
         [p EXCEPT !.sites = {IF s \in Named(@, r.name) THEN Patched(s, r) ELSE s :
                              s \in @}]
    [] r.kind = "delete"  -> [p EXCEPT !.sites = @ \ Named(@, r.name)]
    [] r.kind = "import"  -> [p EXCEPT !.certs[r.cert] = @ + 1]
    [] r.kind = "remove"  -> [p EXCEPT !.certs[r.cert] = 0]
    [] r.kind = "replace" -> Abstract(r.state)
    [] r.kind \in {"params", "generate"} -> [p EXCEPT !.dh = r.id]

After(r, states, old) ==
  {Effect(p, r) : p \in {q \in states : Granted(q, r, old)}}

Init ==
  /\ scenario \in Scenarios
  /\ mem = scenario.state /\ file = scenario.state /\ gone = <<>>
  /\ at = [h \in Handlers |-> Idle]
  /\ queued = FALSE /\ applied = Deployed(scenario.state)
  /\ aged = {} /\ mute = FALSE
  /\ may = {Abstract(scenario.state)}
  /\ met = {} /\ given = {scenario.state} /\ erred = FALSE
  /\ count = 0 /\ faults = 0

Fault(kind) ==
  /\ kind \in scenario.faults
  /\ faults < scenario.maxFaults
  /\ faults' = faults + 1

-----------------------------------------------------------------------------
(* Checks *)

history == <<queued, applied, aged, mute, may, met, given, erred, scenario, count,
             faults>>

(* The handler goes on.                                                    *)
Goes(h, place) == at' = [at EXCEPT ![h].pc = place]

(* An answer that says that nothing was done.                              *)
Refuse(h) == at' = [at EXCEPT ![h] = Idle]

FirstPlace(kind) ==
  CASE kind = "create"                -> "names"
    [] kind \in Patches \cup {"delete"} -> "get"
    [] kind = "remove"                -> "cert"
    [] kind = "generate"              -> "check"
    [] OTHER                          -> "store"

Begin(h, r) ==
  /\ at[h].pc = "idle"
  /\ r \in scenario.requests
  /\ count < scenario.count /\ Cardinality(Busy) < scenario.atOnce
  /\ r.kind = "generate" => \A x \in Busy : at[x].req.kind # "generate"
  /\ count' = count + 1
  /\ at' = [at EXCEPT ![h] =
       [Idle EXCEPT
          !.pc   = FirstPlace(r.kind),
          !.req  = IF r.kind \in {"params", "generate"}
                   THEN [r EXCEPT !.id = count + 1] ELSE r,
          !.site = IF r.kind = "create" THEN r.site ELSE NoSite,
          !.todo = IF r.kind = "create" THEN NamesOf(r.site) ELSE {}]]
  /\ met' = met \cup {{r.kind, at[x].req.kind} : x \in Busy}
  /\ given' = given \cup (IF r.kind = "replace" THEN {r.state} ELSE {})
  /\ UNCHANGED <<storeVars, queued, applied, aged, mute, may, erred, scenario, faults>>

(* The handler of a site gets a copy of it, which it changes.              *)
Get(h) ==
  /\ at[h].pc = "get"
  /\ LET r == at[h].req
         i == GetSite(mem.sites, r.name)
     IN  IF i = 0 THEN Refuse(h)
         ELSE IF r.kind = "delete" THEN Goes(h, "find")
         ELSE at' = [at EXCEPT
                ![h].pc   = CASE r.kind = "aliases" -> "names"
                              [] r.kind = "tls" /\ r.cert # SelfSigned -> "cert"
                              [] OTHER -> "find",
                ![h].site = Patched(mem.sites[i], r),
                ![h].todo = IF r.kind = "aliases" THEN r.aliases ELSE {}]
  /\ UNCHANGED <<storeVars, history>>

(* No site has the name, except the one whose aliases are changed.         *)
CheckName(h, n) ==
  /\ at[h].pc = "names"
  /\ n \in at[h].todo
  /\ LET i == GetSite(mem.sites, n) IN
     IF i = 0 \/ (at[h].req.kind = "aliases"
                   /\ mem.sites[i].domain = at[h].site.domain)
     THEN at' = [at EXCEPT ![h].todo = @ \ {n}]
     ELSE Refuse(h)
  /\ UNCHANGED <<storeVars, history>>

NamesChecked(h) ==
  /\ at[h].pc = "names"
  /\ at[h].todo = {}
  /\ Goes(h, IF at[h].req.kind = "create" /\ at[h].site.tls # SelfSigned
             THEN "cert" ELSE "find")
  /\ UNCHANGED <<storeVars, history>>

CheckCertificate(h) ==
  /\ at[h].pc = "cert"
  /\ IF at[h].req.kind = "remove"
     THEN IF mem.certs[at[h].req.cert] = 0 THEN Refuse(h)
          ELSE Goes(h, "used")
     ELSE IF mem.certs[at[h].site.tls] = 0 THEN Refuse(h)
          ELSE Goes(h, "find")
  /\ UNCHANGED <<storeVars, history>>

(* Mutant: the certificate is removed although a site uses it.             *)
CheckUnused_Skipped(h) ==
  /\ at[h].pc = "used"
  /\ Goes(h, "store")
  /\ UNCHANGED <<storeVars, history>>

CheckUnused(h) ==
  /\ at[h].pc = "used"
  /\ IF \E i \in DOMAIN mem.sites : mem.sites[i].tls = at[h].req.cert
     THEN Refuse(h)
     ELSE Goes(h, "store")
  /\ UNCHANGED <<storeVars, history>>

(* The worker generates parameters when there are none or they are old...  *)
CheckParams(h) ==
  /\ at[h].pc = "check"
  /\ IF mem.dh \in {0} \cup aged
     THEN at' = [at EXCEPT ![h].pc = "generate", ![h].seen = mem.dh]
     ELSE Refuse(h)
  /\ UNCHANGED <<storeVars, history>>

(* ... which takes minutes.  Every ten seconds it looks whether others have*)
(* been set meanwhile, and then gives up.                                  *)
Generated(h) ==
  /\ at[h].pc = "generate"
  /\ \/ Goes(h, "store")
     \/ mem.dh \notin {0, at[h].seen} /\ Refuse(h)
  /\ UNCHANGED <<storeVars, history>>

-----------------------------------------------------------------------------
(* Operations of the manager *)

(* AddSite, UpdateSite and DeleteSite get the state and look at its sites. *)
Find(h) ==
  /\ at[h].pc = "find"
  /\ LET r == at[h].req
         i == CASE r.kind \in Patches  -> SameDomain(mem.sites, at[h].site)
                [] r.kind = "delete"   -> GetSite(mem.sites, r.name)
                [] r.kind = "create"   -> Len(mem.sites) + 1
     IN  IF i = 0 THEN Refuse(h)
         ELSE at' = [at EXCEPT ![h].pc = "store", ![h].object = object,
                               ![h].index = i, ![h].read = mem.sites]
  /\ UNCHANGED <<storeVars, history>>

Change(r, c) ==
  CASE r.kind = "create"  -> AddSite(c.object, c.read, c.site)
    [] r.kind \in Patches -> UpdateSite(c.object, c.index, c.site)
    [] r.kind = "delete"  -> DeleteSite(c.object, c.index)
    [] r.kind = "import"  -> SetCertificate(r.cert)
    [] r.kind = "remove"  -> RemoveCertificate(r.cert)
    [] r.kind = "replace" -> ReplaceState(r.state)
    [] OTHER              -> SetDHParams(r.id)

(* The index is none of the array's any more: a panic, which the router    *)
(* turns into an error.                                                    *)
Panics(h) ==
  /\ at[h].req.kind \in Patches \cup {"delete"}
  /\ at[h].object = object /\ at[h].index > Len(mem.sites)

Store(h) ==
  /\ at[h].pc = "store"
  /\ IF Panics(h)
     THEN Refuse(h) /\ UNCHANGED storeVars
     ELSE /\ Change(at[h].req, at[h])
          /\ at' = [at EXCEPT ![h] = [Idle EXCEPT !.pc = "sites", !.req = at[h].req]]
  /\ UNCHANGED history

(* WriteState serializes the object that is then the state, the sites      *)
(* first, ...                                                              *)
MarshalSites(h) ==
  /\ at[h].pc = "sites"
  /\ at' = [at EXCEPT ![h].pc = "secrets", ![h].data = mem, ![h].object = object]
  /\ UNCHANGED <<storeVars, history>>

(* ... then, of the same object, what nothing changes once it is replaced, *)
MarshalSecrets(h) ==
  /\ at[h].pc = "secrets"
  /\ LET s == IF at[h].object = object THEN Secrets(mem)
              ELSE gone[at[h].object + 1]
     IN  at' = [at EXCEPT ![h].pc = "write", ![h].object = 0,
                          ![h].data.certs = s.certs, ![h].data.dh = s.dh]
  /\ UNCHANGED <<storeVars, history>>

(* ... and replaces the file.                                              *)
Write(h) ==
  /\ at[h].pc = "write"
  /\ WriteFile(at[h].data)
  /\ at' = [at EXCEPT ![h] = [Idle EXCEPT !.pc = "queue", !.req = at[h].req]]
  /\ UNCHANGED history

(* The error is returned; what has changed in memory stays.                *)
WriteFails(h) ==
  /\ at[h].pc = "write"
  /\ Fault("write")
  /\ Refuse(h)
  /\ may' = may \cup After(at[h].req, may, aged)
  /\ erred' = TRUE
  /\ UNCHANGED <<storeVars, queued, applied, aged, mute, met, given, scenario, count>>

-----------------------------------------------------------------------------
(* Mutant: an imported certificate does not queue a sync.                  *)
Answer_NoSync(h) ==
  /\ at[h].pc = "queue"
  /\ Refuse(h)
  /\ queued' = (queued \/ at[h].req.kind \notin {"remove", "import"})
  /\ may' = After(at[h].req, may, aged)
  /\ UNCHANGED <<storeVars, applied, aged, mute, met, given, erred, scenario, count,
                 faults>>

(* QueueRun, except for a certificate that nobody uses and for parameters  *)
(* that a request has set, and the answer.                                 *)
Answer(h) ==
  /\ at[h].pc = "queue"
  /\ Refuse(h)
  /\ queued' = (queued \/ at[h].req.kind \notin {"remove", "params"})
  /\ mute' = (mute \/ at[h].req.kind = "params")
  /\ may' = After(at[h].req, may, aged)
  /\ UNCHANGED <<storeVars, applied, aged, met, given, erred, scenario, count, faults>>

(* A sync, as far as SyncRequests promises it.                             *)
Sync ==
  /\ queued
  /\ queued' = FALSE
  /\ applied' = Deployed(mem) /\ mute' = FALSE
  /\ UNCHANGED <<storeVars, at, aged, may, met, given, erred, scenario, count, faults>>

(* The maximal age of the parameters is reached.                           *)
ParamsAge ==
  /\ "generate" \in {r.kind : r \in scenario.requests}
  /\ mem.dh \notin {0} \cup aged
  /\ aged' = aged \cup {mem.dh}
  /\ UNCHANGED <<storeVars, at, queued, applied, mute, may, met, given, erred,
                 scenario, count, faults>>

(* The process ends and starts again, with a sync.                         *)
Crash ==
  /\ Fault("crash")
  /\ ReadState
  /\ at' = [h \in Handlers |-> Idle]
  /\ queued' = FALSE /\ applied' = Deployed(file)
  /\ may' = may \cup UNION {After(at[h].req, may, aged) : h \in Busy}
  /\ erred' = FALSE /\ mute' = FALSE
  /\ UNCHANGED <<aged, met, given, scenario, count>>

Handle(h) ==
  \/ Get(h) \/ NamesChecked(h) \/ CheckCertificate(h) \/ CheckUnused(h)
  \/ CheckParams(h) \/ Generated(h)
  \/ \E n \in Names : CheckName(h, n)
  \/ Find(h) \/ Store(h) \/ MarshalSites(h) \/ MarshalSecrets(h)
  \/ Write(h) \/ WriteFails(h) \/ Answer(h)

Next ==
  \/ \E h \in Handlers : Handle(h) \/ \E r \in scenario.requests : Begin(h, r)
  \/ Sync \/ ParamsAge \/ Crash

Spec == Init /\ [][Next]_vars

-----------------------------------------------------------------------------
(* Properties *)

Met(kinds) == \E m \in met : m \subseteq kinds

(* No two sites have a name in common, in memory and after a restart, as   *)
(* long as no two requests about sites were handled at once: creations,    *)
(* changed aliases, and deletions by an alias agree on what a name is.     *)
(* Other requests may come meanwhile.  The test of the handlers            *)
(* (site.go:92, 440) is all there is: the operations do not repeat it, and *)
(* PUT /state (state.go:42) tests nothing, so that a state from outside    *)
(* which has a name twice is excepted as well.                             *)
NamesAreUnique ==
  ~Met(SiteKinds \cup {"replace"}) /\ (\A s \in given : Unique(s))
  => Unique(mem) /\ Unique(file)

(* "Only certificates not used by any site can be deleted"                 *)
(* (certificate.go:145).  When no removal and no replacement of the state  *)
(* was handled at the same time as another request, a site that has not    *)
(* its certificate, in memory or in the file, came from outside like this: *)
(* with a state in the file or of a PUT that had a site for the            *)
(* certificate, and not the certificate.  No other sequence of requests,   *)
(* about sites and imports also at once, no error and no crash takes a     *)
(* certificate from a site.                                                *)
CertificatesExist ==
  (\A m \in met : m \cap {"remove", "replace"} = {})
  => Bare(mem) \cup Bare(file) \subseteq UNION {Bare(s) : s \in given}

(* When requests come one after the other, what was answered with success  *)
(* is in memory and in the file, whatever became of the requests that      *)
(* failed or were cut short by the end of the process: each of those was   *)
(* done as a whole or not at all.  Sites are told apart by their names, so *)
(* no state from outside may have a name twice.                            *)
AnswersAreKept ==
  met = {} /\ Busy = {} /\ (\A s \in given : Unique(s))
  => Abstract(mem) \in may /\ Abstract(file) \in may

(* At rest the last sync has read the sites, certificates and parameters   *)
(* of the state, whatever was handled at once, unless a request failed     *)
(* after it changed the state: then it is not followed by a sync.  A       *)
(* removal is not either, so it is excepted when it met another request,   *)
(* which may have made a site use the certificate.  Nor are parameters     *)
(* that a request sets; those the worker generates are applied.            *)
ChangesAreApplied ==
  /\ Busy = {} /\ ~queued /\ ~erred
  /\ \A m \in met : "remove" \notin m
  => /\ applied.sites = Deployed(mem).sites
     /\ mute \/ applied.dh = mem.dh
=============================================================================
