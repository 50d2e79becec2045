---------------------------- MODULE RoutesProofs ----------------------------
(***************************************************************************)
(* Proofs about Routes, for any names, certificates, handlers, requests    *)
(* and faults.                                                             *)
(*                                                                         *)
(* Each property has an invariant that says what a handler still knows of  *)
(* the state at each of its places: CertInv for CertificatesExist, NameInv *)
(* for NamesAreUnique, AllowedInv, which uses both, for AnswersAreKept, and*)
(* AppliedInv for ChangesAreApplied.  They hold under the provisos of the  *)
(* properties, which are about requests that were handled at once: MetInv  *)
(* turns these into what another handler may be doing now.  The lemmas     *)
(* called ...Makes say what a step does to the record of its handler.      *)
(***************************************************************************)
EXTENDS Routes, SequenceTheorems, FiniteSetTheorems, WellFoundedInduction,
        TLAPS

(* What each place of a handler says of its request and its copy.          *)
Placed(a) ==
  /\ a.pc # "idle" => a.req \in Request
  /\ a.pc = "get"   => a.req.kind \in Patches \cup {"delete"}
  /\ a.pc = "names" => a.req.kind \in {"create", "aliases"}
  /\ a.pc = "cert"  => a.req.kind \in {"create", "tls", "remove"}
  /\ a.pc = "used"  => a.req.kind = "remove"
  /\ a.pc \in {"check", "generate"} => a.req.kind = "generate"
  /\ a.pc = "find"  => a.req.kind \in SiteKinds
  /\ a.pc \in {"names", "cert", "find", "store"} =>
       /\ a.req.kind \in Patches \cup {"create"} => a.site \in Site
       /\ a.req.kind = "create" => a.site = a.req.site
       /\ a.req.kind = "tls" => a.site.tls = a.req.cert
  /\ a.pc = "cert" /\ a.req.kind # "remove" => a.site.tls \in Certs
  /\ a.pc = "store" /\ a.req.kind \in SiteKinds => a.index # 0

(* The object that a WriteState reads is, or was, the state.               *)
Reads(a, n) == a.pc = "secrets" => a.object <= n

Types == TypeOK /\ \A h \in Handlers : Placed(at[h]) /\ Reads(at[h], object)

-----------------------------------------------------------------------------
(* The operators *)

LEMMA RequestFields ==
  ASSUME NEW r \in Request
  PROVE  /\ r.kind \in Kinds
         /\ r.kind = "create" => r.site \in Site
         /\ r.kind = "tls" => r.name \in Names /\ r.cert \in Certs \cup {SelfSigned}
         /\ r.kind = "aliases" => r.name \in Names /\ r.aliases \subseteq Names
         /\ r.kind = "deploy" => r.name \in Names /\ r.app \in Apps
         /\ r.kind = "delete" => r.name \in Names
         /\ r.kind \in {"import", "remove"} => r.cert \in Certs
         /\ r.kind = "replace" => r.state \in State
         /\ r.kind \in {"params", "generate"} =>
              /\ r.id \in Nat
              /\ \A n \in Nat : [r EXCEPT !.id = n] \in Request
BY DEF Request, Kinds, SiteKinds, Patches

LEMMA PatchedType ==
  ASSUME NEW s \in Site, NEW r \in Request, r.kind \in Patches
  PROVE  /\ Patched(s, r) \in Site
         /\ Patched(s, r).domain = s.domain
         /\ r.kind = "tls" => Patched(s, r).tls = r.cert
         /\ r.kind # "tls" => Patched(s, r).tls = s.tls
         /\ Patched(s, r).aliases = IF r.kind = "aliases" THEN r.aliases ELSE s.aliases
<1>1. CASE r.kind = "tls"
  BY <1>1, RequestFields DEF Patched, Site
<1>2. CASE r.kind = "aliases"
  BY <1>2, RequestFields DEF Patched, Site
<1>3. CASE r.kind = "deploy"
  BY <1>3, RequestFields DEF Patched, Site
<1> QED
  BY <1>1, <1>2, <1>3 DEF Patches

(* A set of indices has a smallest: so have the sets of those before one.  *)
LEMMA SmallestIndex ==
  ASSUME NEW n \in Nat, NEW S, S \subseteq 1..n, S # {}
  PROVE  \E i \in S : \A k \in S : i <= k
<1> DEFINE Before(i) == {k \in S : k < i}
           T == {Before(i) : i \in S}
<1>1. IsFiniteSet(S) /\ FiniteSubsetsOf(S) = SUBSET S
  <2>1. IsFiniteSet(1..n)
    BY FS_Interval
  <2>2. IsFiniteSet(S)
    BY <2>1, FS_Subset
  <2> QED
    BY <2>2, FS_FiniteSubsetsOfFinite
<1>2. IsWellFoundedOn(StrictSubsetOrdering(S), SUBSET S)
  BY <1>1, FS_StrictSubsetOrderingWellFounded
<1>3. T \subseteq SUBSET S /\ T # {}
  OBVIOUS
<1> HIDE DEF T
<1>4. PICK U \in T : \A V \in T : <<V, U>> \notin StrictSubsetOrdering(S)
  BY <1>2, <1>3, WFMin
<1>5. PICK i \in S : U = Before(i)
  BY <1>4 DEF T
<1>6. \A j \in S : j \in Nat
  OBVIOUS
<1>7. ASSUME NEW k \in S, k < i PROVE FALSE
  <2>1. Before(k) \in T
    BY DEF T
  <2>2. k \in U /\ k \notin Before(k)
    BY <1>5, <1>6, <1>7
  <2>3. ASSUME NEW j \in Before(k) PROVE j \in Before(i)
    BY <1>6, <1>7, <2>3
  <2>4. <<Before(k), U>> \in StrictSubsetOrdering(S)
    BY <1>3, <1>4, <1>5, <2>1, <2>2, <2>3 DEF StrictSubsetOrdering
  <2> QED
    BY <1>4, <2>1, <2>4
<1> QED
  BY <1>6, <1>7

(* The first index is one, and there is none only if the set is empty.     *)
LEMMA FirstIndex ==
  ASSUME NEW n \in Nat, NEW S, S \subseteq 1..n
  PROVE  /\ First(S) \in 0..n
         /\ First(S) = 0 <=> S = {}
         /\ S # {} => First(S) \in S
<1>1. CASE S = {}
  BY <1>1 DEF First
<1>2. CASE S # {}
  <2>1. \E i \in S : \A k \in S : i <= k
    BY <1>2, SmallestIndex
  <2>2. First(S) = CHOOSE i \in S : \A k \in S : i <= k
    BY <1>2 DEF First, Min
  <2>3. First(S) \in S
    BY <2>1, <2>2
  <2>4. First(S) \in 1..n
    BY <2>3
  <2> HIDE DEF First
  <2> QED
    BY <1>2, <2>3, <2>4
<1> QED
  BY <1>1, <1>2

(* What a name finds, when there are sites.                                *)
LEMMA GetSiteFinds ==
  ASSUME NEW sites \in Seq(Site), NEW n
  PROVE  LET i == GetSite(sites, n) IN
         /\ i \in 0..Len(sites)
         /\ i = 0 => \A k \in 1..Len(sites) : n \notin NamesOf(sites[k])
         /\ i # 0 => n \in NamesOf(sites[i])
<1> DEFINE S == {k \in DOMAIN sites : n \in NamesOf(sites[k])}
<1>1. S \subseteq 1..Len(sites) /\ Len(sites) \in Nat
  OBVIOUS
<1>2. \A k \in S : n \in NamesOf(sites[k])
  OBVIOUS
<1>3. \A k \in 1..Len(sites) : n \in NamesOf(sites[k]) => k \in S
  OBVIOUS
<1>4. GetSite(sites, n) = First(S)
  BY DEF GetSite
<1> HIDE DEF S
<1> QED
  BY <1>1, <1>2, <1>3, <1>4, FirstIndex

LEMMA SameDomainFinds ==
  ASSUME NEW sites \in Seq(Site), NEW s
  PROVE  LET i == SameDomain(sites, s) IN
         /\ i \in 0..Len(sites)
         /\ i = 0 => \A k \in 1..Len(sites) : sites[k].domain # s.domain
         /\ i # 0 => sites[i].domain = s.domain
<1> DEFINE S == {k \in DOMAIN sites : sites[k].domain = s.domain}
<1>1. S \subseteq 1..Len(sites) /\ Len(sites) \in Nat
  OBVIOUS
<1>2. \A k \in S : sites[k].domain = s.domain
  OBVIOUS
<1>3. \A k \in 1..Len(sites) : sites[k].domain = s.domain => k \in S
  OBVIOUS
<1>4. SameDomain(sites, s) = First(S)
  BY DEF SameDomain
<1> HIDE DEF S
<1> QED
  BY <1>1, <1>2, <1>3, <1>4, FirstIndex

(* The last element takes the place of the one that is removed.            *)
LEMMA WithoutSites ==
  ASSUME NEW sites \in Seq(Site), NEW i \in 1..Len(sites)
  PROVE  /\ Without(sites, i) \in Seq(Site)
         /\ Len(Without(sites, i)) = Len(sites) - 1
         /\ \A k \in 1 .. Len(sites) - 1 :
              Without(sites, i)[k] = IF k = i THEN sites[Len(sites)] ELSE sites[k]
<1> DEFINE e == [sites EXCEPT ![i] = sites[Len(sites)]]
           n == Len(sites) - 1
<1>1. sites[Len(sites)] \in Site /\ n \in Nat
  OBVIOUS
<1>2. e \in Seq(Site) /\ Len(e) = Len(sites)
  BY <1>1, ExceptSeq
<1>3. \A k \in 1..n : e[k] = IF k = i THEN sites[Len(sites)] ELSE sites[k]
  OBVIOUS
<1> HIDE DEF e
<1>4. /\ SubSeq(e, 1, n) \in Seq(Site) /\ Len(SubSeq(e, 1, n)) = n
      /\ \A k \in 1..n : SubSeq(e, 1, n)[k] = e[k]
  BY <1>1, <1>2, SubSeqProperties
<1>5. Without(sites, i) = SubSeq(e, 1, n)
  BY DEF Without, e
<1> QED
  BY <1>3, <1>4, <1>5

-----------------------------------------------------------------------------
(* Types *)

(* Each replacement of the state makes another object.                     *)
LEMMA Objects ==
  ASSUME StoreTypeOK
  PROVE  /\ object \in Nat
         /\ \A n \in 0 .. object - 1 : gone[n + 1] \in [certs : [Certs -> Nat], dh : Nat]
         /\ \A s \in State : gone' = Append(gone, Secrets(s)) =>
              /\ gone' \in Seq([certs : [Certs -> Nat], dh : Nat])
              /\ object' = object + 1
<1> DEFINE R == [certs : [Certs -> Nat], dh : Nat]
<1>1. gone \in Seq(R)
  BY DEF StoreTypeOK
<1>2. ASSUME NEW s \in State PROVE Secrets(s) \in R
  BY DEF Secrets, State
<1> HIDE DEF R
<1>3. Len(gone) \in Nat /\ \A n \in 0 .. Len(gone) - 1 : gone[n + 1] \in R
  BY <1>1
<1>4. ASSUME NEW s \in State, gone' = Append(gone, Secrets(s))
      PROVE  gone' \in Seq(R) /\ Len(gone') = Len(gone) + 1
  BY <1>1, <1>2, <1>4, AppendProperties
<1> QED
  BY <1>3, <1>4 DEF object, R

LEMMA IdleType == Idle \in Handler /\ Placed(Idle) /\ \A n : Reads(Idle, n)
<1>1. NoState \in State
  BY DEF NoState, State
<1>2. Idle \in Handler
  BY <1>1 DEF Idle, Handler, Places
<1> QED
  BY <1>2 DEF Idle, Placed, NoRequest, Reads

LEMMA TypesInit == Init => Types
<1> SUFFICES ASSUME Init PROVE Types
  OBVIOUS
<1>1. scenario.state \in State
  BY RoutesAssumption DEF Init
<1>2. /\ at \in [Handlers -> Handler]
      /\ \A h \in Handlers : Placed(at[h]) /\ Reads(at[h], object)
  BY IdleType DEF Init
<1>3. StoreTypeOK
  <2>1. gone \in Seq([certs : [Certs -> Nat], dh : Nat])
    BY DEF Init
  <2> QED
    BY <1>1, <2>1 DEF Init, StoreTypeOK
<1>4. given \subseteq State /\ met \subseteq SUBSET Kinds /\ aged \subseteq Nat
  BY <1>1 DEF Init
<1>5. scenario \in Scenarios /\ queued = FALSE /\ erred = FALSE /\ mute = FALSE /\ count = 0
  BY DEF Init
<1> QED
  BY <1>2, <1>3, <1>4, <1>5 DEF Types, TypeOK

(* A step of a handler that leaves the types of the rest alone.            *)
LEMMA TypesOfHandler ==
  ASSUME Types, NEW h \in Handlers, NEW a,
         at' = [at EXCEPT ![h] = a], a \in Handler, Placed(a),
         mem' \in State, file' \in State,
         gone' \in Seq([certs : [Certs -> Nat], dh : Nat]), object <= object',
         Reads(a, object'), queued' \in BOOLEAN, erred' \in BOOLEAN, mute' \in BOOLEAN,
         count' \in Nat, UNCHANGED <<aged, scenario>>, met' \subseteq SUBSET Kinds,
         given' \subseteq State
  PROVE  Types'
<1>1. at' \in [Handlers -> Handler]
  BY DEF Types, TypeOK
<1>2. \A x \in Handlers : Placed(at'[x])
  BY DEF Types, TypeOK
<1>3. object \in Nat /\ object' \in Nat
  <2>1. Len(gone) \in Nat /\ Len(gone') \in Nat
    BY DEF Types, TypeOK, StoreTypeOK
  <2> QED
    BY <2>1 DEF object
<1>4. ASSUME NEW x \in Handlers PROVE Reads(at'[x], object')
  <2>1. CASE x = h
    BY <2>1 DEF Types, TypeOK
  <2>2. CASE x # h
    <3>1. at'[x] = at[x] /\ Reads(at[x], object) /\ at[x] \in Handler
      BY <2>2 DEF Types, TypeOK
    <3> QED
      BY <1>3, <3>1 DEF Reads, Handler
  <2> QED
    BY <2>1, <2>2
<1> QED
  BY <1>1, <1>2, <1>4 DEF Types, TypeOK, StoreTypeOK

LEMMA TypesBegin ==
  ASSUME Types, NEW h \in Handlers, NEW r \in scenario.requests, Begin(h, r)
  PROVE  Types'
<1> DEFINE req == IF r.kind \in {"params", "generate"}
                  THEN [r EXCEPT !.id = count + 1] ELSE r
           a == [Idle EXCEPT
                   !.pc   = FirstPlace(r.kind),
                   !.req  = req,
                   !.site = IF r.kind = "create" THEN r.site ELSE NoSite,
                   !.todo = IF r.kind = "create" THEN NamesOf(r.site) ELSE {}]
<1>1. r \in Request /\ (r.kind = "replace" => r.state \in State)
  BY RoutesAssumption, RequestFields DEF Types, TypeOK
<1>2. /\ req \in Request /\ req.kind = r.kind
      /\ r.kind = "create" => req.site = r.site
      /\ r.kind = "replace" => req.state = r.state
  BY <1>1, RequestFields DEF Types, TypeOK, Request
<1>3. r.kind = "create" => NamesOf(r.site) \subseteq Names
  BY <1>1, RequestFields DEF NamesOf, Site
<1>4. FirstPlace(r.kind) \in Places
  BY <1>1, RequestFields DEF FirstPlace, Places
<1> HIDE DEF req
<1>5. a \in Handler
  BY <1>1, <1>2, <1>3, <1>4, IdleType, RequestFields DEF Handler
<1>6. /\ a.pc = FirstPlace(r.kind) /\ a.req = req
      /\ a.site = IF r.kind = "create" THEN r.site ELSE NoSite
  BY IdleType DEF Handler
<1>7. Placed(a)
  <2> HIDE DEF a
  <2> QED
    BY <1>1, <1>2, <1>6, RequestFields DEF Placed, FirstPlace, Kinds, SiteKinds, Patches
<1>8. {{r.kind, at[x].req.kind} : x \in Busy} \subseteq SUBSET Kinds
  BY <1>1, RequestFields DEF Types, Placed, Busy
<1>9. at' = [at EXCEPT ![h] = a]
  BY DEF Begin, req
<1>10. Reads(a, object')
  BY <1>1, <1>6, RequestFields DEF Reads, FirstPlace, Kinds, SiteKinds, Patches
<1> HIDE DEF a
<1>11. /\ mem' \in State /\ file' \in State
       /\ gone' \in Seq([certs : [Certs -> Nat], dh : Nat])
  BY DEF Begin, Types, TypeOK, StoreTypeOK, storeVars
<1>12. object <= object'
  BY Objects DEF Begin, Types, TypeOK, storeVars, object
<1>13. met' \subseteq SUBSET Kinds /\ given' \subseteq State
  BY <1>1, <1>8 DEF Begin, Types, TypeOK
<1>14. /\ queued' \in BOOLEAN /\ erred' \in BOOLEAN /\ mute' \in BOOLEAN
       /\ count' \in Nat /\ UNCHANGED <<aged, scenario>>
  BY DEF Begin, Types, TypeOK
<1> QED
  BY <1>5, <1>7, <1>9, <1>10, <1>11, <1>12, <1>13, <1>14, TypesOfHandler

(* The rest of the state, while a handler tests.                           *)
LEMMA TypesOfTest ==
  ASSUME Types, NEW h \in Handlers, NEW a, at' = [at EXCEPT ![h] = a],
         a \in Handler, Placed(a), Reads(a, object), UNCHANGED <<storeVars, history>>
  PROVE  Types'
<1>1. object' = object /\ object \in Nat
  BY Objects DEF object, storeVars, Types, TypeOK
<1> QED
  BY <1>1, TypesOfHandler DEF Types, TypeOK, StoreTypeOK, storeVars, history

LEMMA HandlerTypes ==
  ASSUME Types, NEW h \in Handlers
  PROVE  /\ at[h] \in Handler /\ Placed(at[h])
         /\ at[h].pc # "idle" =>
              at[h].req \in Request /\ at[h].req.kind \in Kinds
         /\ mem \in State /\ file \in State /\ StoreTypeOK
         /\ mem.sites \in Seq(Site) /\ object \in Nat
BY RequestFields, Objects DEF Types, TypeOK, StoreTypeOK, Placed, State

LEMMA TypesRefuse ==
  ASSUME Types, NEW h \in Handlers, Refuse(h), UNCHANGED <<storeVars, history>>
  PROVE  Types'
BY IdleType, TypesOfTest DEF Refuse

LEMMA TypesGoes ==
  ASSUME Types, NEW h \in Handlers, NEW place \in Places, Goes(h, place),
         place # "secrets", Placed([at[h] EXCEPT !.pc = place]),
         UNCHANGED <<storeVars, history>>
  PROVE  Types'
<1>1. [at[h] EXCEPT !.pc = place] \in Handler /\ Reads([at[h] EXCEPT !.pc = place], object)
  BY HandlerTypes DEF Handler, Reads
<1>2. at' = [at EXCEPT ![h] = [at[h] EXCEPT !.pc = place]]
  BY DEF Goes
<1> QED
  BY <1>1, <1>2, TypesOfTest

LEMMA TypesGet ==
  ASSUME Types, NEW h \in Handlers, Get(h)
  PROVE  Types'
<1> DEFINE r == at[h].req
           i == GetSite(mem.sites, r.name)
<1> USE HandlerTypes
<1>1. /\ r \in Request /\ r.kind \in Patches \cup {"delete"}
      /\ i \in 0..Len(mem.sites)
  BY GetSiteFinds DEF Get, Placed
<1> HIDE DEF i
<1>2. CASE Refuse(h)
  BY <1>2, TypesRefuse DEF Get
<1>3. CASE i # 0 /\ r.kind = "delete" /\ Goes(h, "find")
  <2>1. Placed([at[h] EXCEPT !.pc = "find"])
    BY <1>1, <1>3 DEF Placed, Handler, SiteKinds, Patches
  <2> QED
    BY <1>3, <2>1, TypesGoes DEF Get, Places
<1>4. CASE i # 0 /\ r.kind # "delete"
  <2> DEFINE s == Patched(mem.sites[i], r)
             p == CASE r.kind = "aliases" -> "names"
                    [] r.kind = "tls" /\ r.cert # SelfSigned -> "cert"
                    [] OTHER -> "find"
             a == [at[h] EXCEPT !.pc = p, !.site = s,
                       !.todo = IF r.kind = "aliases" THEN r.aliases ELSE {}]
  <2>1. at' = [at EXCEPT ![h] = a]
    BY <1>4 DEF Get, i
  <2>2. s \in Site /\ (r.kind = "tls" => s.tls = r.cert)
    BY <1>1, <1>4, PatchedType
  <2>3. /\ p \in Places /\ p \in {"names", "cert", "find"}
        /\ p = "names" <=> r.kind = "aliases"
        /\ p = "cert" => r.kind = "tls" /\ r.cert \in Certs
    BY <1>1, RequestFields DEF Places
  <2> HIDE DEF s, p
  <2>4. a \in Handler /\ a.pc = p /\ a.site = s /\ a.req = r
    BY <1>1, <2>2, <2>3, RequestFields DEF Handler
  <2> HIDE DEF a
  <2>5. Placed(a)
    BY <1>1, <1>4, <2>2, <2>3, <2>4 DEF Placed, SiteKinds, Patches
  <2> QED
    BY <2>1, <2>3, <2>4, <2>5, TypesOfTest DEF Get, Reads
<1> QED
  BY <1>2, <1>3, <1>4 DEF Get, i

LEMMA TypesChecks ==
  ASSUME Types, NEW h \in Handlers,
         \/ NamesChecked(h) \/ CheckCertificate(h) \/ CheckUnused(h)
         \/ \E n \in Names : CheckName(h, n)
  PROVE  Types'
<1> USE HandlerTypes
<1>1. CASE Refuse(h) /\ UNCHANGED <<storeVars, history>>
  BY <1>1, TypesRefuse
<1>2. ASSUME NEW n \in Names, CheckName(h, n), ~Refuse(h) PROVE Types'
  <2> DEFINE a == [at[h] EXCEPT !.todo = @ \ {n}]
  <2>1. at' = [at EXCEPT ![h] = a] /\ a \in Handler /\ at[h].pc = "names"
    BY <1>2 DEF CheckName, Handler
  <2>2. a.pc = at[h].pc /\ a.req = at[h].req /\ a.site = at[h].site
    BY DEF Handler
  <2> HIDE DEF a
  <2>3. Placed(a)
    BY <2>1, <2>2 DEF Placed
  <2> QED
    BY <1>2, <2>1, <2>2, <2>3, TypesOfTest DEF CheckName, Reads
<1>3. CASE NamesChecked(h)
  <2> DEFINE p == IF at[h].req.kind = "create" /\ at[h].site.tls # SelfSigned
                  THEN "cert" ELSE "find"
  <2>1. at[h].site.tls \in Certs \cup {SelfSigned}
    BY <1>3 DEF NamesChecked, Placed, Site, Patches
  <2>2. Placed([at[h] EXCEPT !.pc = p])
    BY <1>3, <2>1 DEF NamesChecked, Placed, Handler, SiteKinds, Patches
  <2> QED
    BY <1>3, <2>2, TypesGoes DEF NamesChecked, Places
<1>4. CASE CheckCertificate(h) /\ ~Refuse(h)
  <2>1. Placed([at[h] EXCEPT !.pc = "used"]) \/ at[h].req.kind # "remove"
    BY <1>4 DEF CheckCertificate, Placed, Handler
  <2>2. Placed([at[h] EXCEPT !.pc = "find"]) \/ at[h].req.kind = "remove"
    BY <1>4 DEF CheckCertificate, Placed, Handler, SiteKinds, Patches
  <2> QED
    BY <1>4, <2>1, <2>2, TypesGoes DEF CheckCertificate, Places
<1>5. CASE CheckUnused(h) /\ ~Refuse(h)
  <2>1. Placed([at[h] EXCEPT !.pc = "store"])
    BY <1>5 DEF CheckUnused, Placed, Handler, SiteKinds, Patches
  <2> QED
    BY <1>5, <2>1, TypesGoes DEF CheckUnused, Places
<1> QED
  BY <1>1, <1>2, <1>3, <1>4, <1>5 DEF CheckName, CheckCertificate, CheckUnused

LEMMA TypesParams ==
  ASSUME Types, NEW h \in Handlers, CheckParams(h) \/ Generated(h)
  PROVE  Types'
<1> USE HandlerTypes
<1>1. CASE Refuse(h)
  BY <1>1, TypesRefuse DEF CheckParams, Generated
<1>2. CASE CheckParams(h) /\ ~Refuse(h)
  <2> DEFINE a == [at[h] EXCEPT !.pc = "generate", !.seen = mem.dh]
  <2>1. at' = [at EXCEPT ![h] = a]
    BY <1>2 DEF CheckParams
  <2>2. a \in Handler /\ a.pc = "generate" /\ a.req = at[h].req
    BY <1>2 DEF CheckParams, Handler, Places, State
  <2> HIDE DEF a
  <2>3. Placed(a)
    BY <1>2, <2>2 DEF CheckParams, Placed
  <2> QED
    BY <1>2, <2>1, <2>2, <2>3, TypesOfTest DEF CheckParams, Reads
<1>3. CASE Generated(h) /\ ~Refuse(h)
  <2>1. Placed([at[h] EXCEPT !.pc = "store"])
    BY <1>3 DEF Generated, Placed, Handler, SiteKinds, Patches
  <2> QED
    BY <1>3, <2>1, TypesGoes DEF Generated, Places
<1> QED
  BY <1>1, <1>2, <1>3

LEMMA TypesFind ==
  ASSUME Types, NEW h \in Handlers, Find(h)
  PROVE  Types'
<1> USE HandlerTypes
<1>1. CASE Refuse(h)
  BY <1>1, TypesRefuse DEF Find
<1>2. CASE ~Refuse(h)
  <2> DEFINE r == at[h].req
             i == CASE r.kind \in Patches  -> SameDomain(mem.sites, at[h].site)
                    [] r.kind = "delete"   -> GetSite(mem.sites, r.name)
                    [] r.kind = "create"   -> Len(mem.sites) + 1
             a == [at[h] EXCEPT !.pc = "store", !.object = object,
                                !.index = i, !.read = mem.sites]
  <2>1. at' = [at EXCEPT ![h] = a] /\ i # 0
    BY <1>2 DEF Find
  <2>2. i \in Nat
    BY <1>2, SameDomainFinds, GetSiteFinds
    DEF Find, Placed, SiteKinds, Patches
  <2> HIDE DEF i
  <2>3. object \in Nat /\ mem.sites \in Seq(Site)
    BY DEF Types, TypeOK, StoreTypeOK
  <2>4. /\ a \in Handler /\ a.pc = "store" /\ a.req = at[h].req
        /\ a.index = i /\ a.site = at[h].site
    BY <2>2, <2>3 DEF Handler, Places
  <2> HIDE DEF a
  <2>5. Placed(a)
    BY <1>2, <2>1, <2>4 DEF Find, Placed
  <2> QED
    BY <1>2, <2>1, <2>4, <2>5, TypesOfTest DEF Find, Reads
<1> QED
  BY <1>1, <1>2

(* The rest of the types, while a handler changes the store.               *)
LEMMA TypesOfWork ==
  ASSUME Types, NEW h \in Handlers, NEW a, at' = [at EXCEPT ![h] = a],
         a \in Handler, Placed(a), Reads(a, object'), UNCHANGED history,
         mem' \in State, file' \in State, object <= object',
         gone' \in Seq([certs : [Certs -> Nat], dh : Nat])
  PROVE  Types'
<1>1. /\ queued' \in BOOLEAN /\ erred' \in BOOLEAN /\ mute' \in BOOLEAN
      /\ count' \in Nat /\ UNCHANGED <<aged, scenario>>
      /\ met' \subseteq SUBSET Kinds /\ given' \subseteq State
  BY DEF history, Types, TypeOK
<1> QED
  BY <1>1, TypesOfHandler

(* A handler whose work is done, or who begins to write it.                *)
LEMMA AfterType ==
  ASSUME NEW p \in {"sites", "queue"}, NEW r \in Request
  PROVE  LET a == [Idle EXCEPT !.pc = p, !.req = r] IN
         /\ a \in Handler /\ Placed(a) /\ \A n : Reads(a, n)
         /\ a.pc = p /\ a.req = r
<1> DEFINE a == [Idle EXCEPT !.pc = p, !.req = r]
<1>1. a \in Handler /\ a.pc = p /\ a.req = r
  BY IdleType DEF Handler, Places
<1> HIDE DEF a
<1>2. Placed(a)
  BY <1>1 DEF Placed
<1>3. \A n : Reads(a, n)
  BY <1>1 DEF Reads
<1> QED
  BY <1>1, <1>2, <1>3 DEF a

(* An operation changes the state to one of that type.                     *)
LEMMA ChangeTypes ==
  ASSUME Types, NEW h \in Handlers, at[h].pc = "store", ~Panics(h),
         Change(at[h].req, at[h])
  PROVE  /\ mem' \in State /\ file' = file /\ object <= object'
         /\ gone' \in Seq([certs : [Certs -> Nat], dh : Nat])
<1> DEFINE a == at[h]
           r == at[h].req
<1> USE HandlerTypes
<1>1. /\ r \in Request /\ r.kind \in Kinds /\ a \in Handler
      /\ mem \in State /\ mem.sites \in Seq(Site) /\ object \in Nat
      /\ Placed(a) /\ StoreTypeOK
  BY DEF Types, TypeOK, StoreTypeOK
<1> SUFFICES /\ mem' \in State /\ file' = file
             /\ gone' = gone \/ gone' = Append(gone, Secrets(mem))
  <2>1. ASSUME gone' = gone
        PROVE  object <= object' /\ gone' \in Seq([certs : [Certs -> Nat], dh : Nat])
    BY <1>1, <2>1 DEF object, StoreTypeOK
  <2>2. ASSUME gone' = Append(gone, Secrets(mem))
        PROVE  object <= object' /\ gone' \in Seq([certs : [Certs -> Nat], dh : Nat])
    <3>1. mem \in State /\ StoreTypeOK /\ object \in Nat
      BY <1>1
    <3>2. object' = object + 1 /\ gone' \in Seq([certs : [Certs -> Nat], dh : Nat])
      BY <2>2, <3>1, Objects
    <3> QED
      BY <3>1, <3>2
  <2> QED
    BY <2>1, <2>2
<1>2. ASSUME NEW sites \in Seq(Site), SetSites(a.object, sites)
      PROVE  mem' \in State /\ gone' = gone /\ file' = file
  BY <1>1, <1>2 DEF SetSites, State
<1>3. CASE r.kind = "create"
  <2>1. Append(a.read, a.site) \in Seq(Site)
    BY <1>1, <1>3 DEF Placed, Handler
  <2> QED
    <3>1. AddSite(a.object, a.read, a.site)
      BY <1>3 DEF Change, Patches
    <3> QED
      BY <1>2, <2>1, <3>1 DEF AddSite
<1>4. CASE r.kind \in Patches
  <2>1. CASE a.object # object
    BY <1>1, <1>4, <2>1 DEF Change, UpdateSite, SetSites, Patches
  <2>2. CASE a.object = object
    <3>1. a.index \in 1..Len(mem.sites) /\ a.site \in Site
      BY <1>1, <1>4, <2>2 DEF Panics, Placed, Handler, SiteKinds
    <3>2. [mem.sites EXCEPT ![a.index] = a.site] \in Seq(Site)
      BY <1>1, <3>1
    <3> QED
      BY <1>2, <1>4, <3>2 DEF Change, UpdateSite, Patches
  <2> QED
    BY <2>1, <2>2
<1>5. CASE r.kind = "delete"
  <2>1. CASE a.object # object
    BY <1>1, <1>5, <2>1 DEF Change, DeleteSite, SetSites, Patches
  <2>2. CASE a.object = object
    <3>1. a.index \in 1..Len(mem.sites)
      BY <1>1, <1>5, <2>2 DEF Panics, Placed, Handler, SiteKinds
    <3>2. Without(mem.sites, a.index) \in Seq(Site)
      BY <1>1, <3>1, WithoutSites
    <3> QED
      BY <1>2, <1>5, <3>2 DEF Change, DeleteSite, Patches
  <2> QED
    BY <2>1, <2>2
<1>6. CASE r.kind \in {"import", "remove"}
  <2>1. r.cert \in Certs
    BY <1>1, <1>6, RequestFields
  <2>2. SetCertificate(r.cert) \/ RemoveCertificate(r.cert)
    BY <1>6 DEF Change, Patches
  <2>3. mem.certs[r.cert] + 1 \in Nat
    BY <1>1, <2>1 DEF State
  <2>4. \/ mem' = [mem EXCEPT !.certs[r.cert] = mem.certs[r.cert] + 1]
        \/ mem' = [mem EXCEPT !.certs[r.cert] = 0]
    BY <2>2 DEF SetCertificate, RemoveCertificate
  <2>5. PICK n \in Nat : mem' = [mem EXCEPT !.certs[r.cert] = n]
    BY <2>3, <2>4
  <2> QED
    BY <1>1, <2>1, <2>2, <2>5 DEF SetCertificate, RemoveCertificate, State
<1>7. CASE r.kind = "replace"
  BY <1>1, <1>7, RequestFields DEF Change, Patches, ReplaceState
<1>8. CASE r.kind \in {"params", "generate"}
  BY <1>1, <1>8, RequestFields DEF Change, Patches, SetDHParams, State
<1> QED
  BY <1>1, <1>3, <1>4, <1>5, <1>6, <1>7, <1>8 DEF Kinds, SiteKinds

LEMMA TypesStore ==
  ASSUME Types, NEW h \in Handlers, Store(h)
  PROVE  Types'
<1> USE HandlerTypes
<1>1. CASE Panics(h)
  BY <1>1, TypesRefuse DEF Store
<1>2. CASE ~Panics(h)
  <2>1. /\ mem' \in State /\ file' \in State /\ object <= object'
        /\ gone' \in Seq([certs : [Certs -> Nat], dh : Nat])
    BY <1>2, ChangeTypes DEF Store
  <2>2. /\ at' = [at EXCEPT ![h] = [Idle EXCEPT !.pc = "sites", !.req = at[h].req]]
        /\ UNCHANGED history
    BY <1>2 DEF Store
  <2>3. /\ [Idle EXCEPT !.pc = "sites", !.req = at[h].req] \in Handler
        /\ Placed([Idle EXCEPT !.pc = "sites", !.req = at[h].req])
        /\ Reads([Idle EXCEPT !.pc = "sites", !.req = at[h].req], object')
    BY AfterType DEF Store, Placed
  <2> QED
    BY <2>1, <2>2, <2>3, TypesOfWork
<1> QED
  BY <1>1, <1>2

(* What is written: the sites that were read first, the certificates and   *)
(* parameters of the same object.                                          *)
WrittenData(a) ==
  LET s == IF a.object = object THEN Secrets(mem) ELSE gone[a.object + 1]
  IN  [a.data EXCEPT !.certs = s.certs, !.dh = s.dh]

LEMMA DataWritten ==
  ASSUME Types, NEW h \in Handlers, MarshalSecrets(h)
  PROVE  /\ WrittenData(at[h]) \in State
         /\ at' = [at EXCEPT ![h] = [at[h] EXCEPT !.pc = "write", !.object = 0,
                                                  !.data = WrittenData(at[h])]]
<1> DEFINE a == at[h]
           s == IF a.object = object THEN Secrets(mem) ELSE gone[a.object + 1]
<1>1. a \in Handler /\ a.object <= object /\ a.object \in Nat /\ object \in Nat
  BY HandlerTypes DEF Types, Reads, MarshalSecrets, Handler
<1>2. s \in [certs : [Certs -> Nat], dh : Nat]
  <2>1. Secrets(mem) \in [certs : [Certs -> Nat], dh : Nat]
    BY HandlerTypes DEF Secrets, State
  <2>2. a.object # object => a.object \in 0 .. object - 1
    BY <1>1
  <2> QED
    BY <2>1, <2>2, HandlerTypes, Objects
<1>3. at' = [at EXCEPT ![h].pc = "write", ![h].object = 0,
                       ![h].data.certs = s.certs, ![h].data.dh = s.dh]
  BY DEF MarshalSecrets
<1>4. WrittenData(a) = [a.data EXCEPT !.certs = s.certs, !.dh = s.dh]
  BY DEF WrittenData
<1> HIDE DEF s
<1>5. a.data \in State
  BY <1>1 DEF Handler
<1>6. [a.data EXCEPT !.certs = s.certs, !.dh = s.dh] \in State
  BY <1>2, <1>5 DEF State
<1>7. at' = [at EXCEPT ![h] = [a EXCEPT !.pc = "write", !.object = 0,
                   !.data = [a.data EXCEPT !.certs = s.certs, !.dh = s.dh]]]
  <2>1. at \in [Handlers -> Handler]
    BY DEF Types, TypeOK
  <2> QED
    BY <1>3, <1>5, <2>1 DEF Handler, State
<1> QED
  BY <1>4, <1>6, <1>7

LEMMA TypesWrite ==
  ASSUME Types, NEW h \in Handlers,
         \/ MarshalSites(h) \/ MarshalSecrets(h) \/ Write(h) \/ WriteFails(h)
         \/ Answer(h)
  PROVE  Types'
<1> USE HandlerTypes
<1>6. gone \in Seq([certs : [Certs -> Nat], dh : Nat])
  BY DEF Types, TypeOK, StoreTypeOK
<1>1. CASE MarshalSites(h)
  <2> DEFINE a == [at[h] EXCEPT !.pc = "secrets", !.data = mem, !.object = object]
  <2>1. at' = [at EXCEPT ![h] = a]
    BY <1>1 DEF MarshalSites
  <2>2. a \in Handler /\ a.pc = "secrets" /\ a.req = at[h].req /\ a.object = object
    BY DEF Handler, Places
  <2> HIDE DEF a
  <2>3. Placed(a) /\ Reads(a, object)
    BY <1>1, <2>2 DEF MarshalSites, Placed, Reads
  <2> QED
    BY <1>1, <2>1, <2>2, <2>3, TypesOfTest DEF MarshalSites
<1>2. CASE MarshalSecrets(h)
  <2>1. PICK d \in State :
          at' = [at EXCEPT ![h] = [at[h] EXCEPT !.pc = "write", !.object = 0, !.data = d]]
    BY <1>2, DataWritten
  <2> DEFINE a == [at[h] EXCEPT !.pc = "write", !.object = 0, !.data = d]
  <2>3. a \in Handler /\ a.pc = "write" /\ a.req = at[h].req
    BY DEF Handler, Places
  <2>4. at' = [at EXCEPT ![h] = a]
    BY <2>1
  <2> HIDE DEF a
  <2>5. Placed(a) /\ Reads(a, object)
    BY <1>2, <2>3 DEF MarshalSecrets, Placed, Reads
  <2> QED
    BY <1>2, <2>3, <2>4, <2>5, TypesOfTest DEF MarshalSecrets
<1>3. CASE Write(h)
  <2>1. file' = at[h].data /\ at[h].data \in State /\ UNCHANGED <<mem, gone>>
    BY <1>3 DEF Write, WriteFile, Handler
  <2>2. /\ at' = [at EXCEPT ![h] = [Idle EXCEPT !.pc = "queue", !.req = at[h].req]]
        /\ UNCHANGED history
    BY <1>3 DEF Write
  <2>3. /\ [Idle EXCEPT !.pc = "queue", !.req = at[h].req] \in Handler
        /\ Placed([Idle EXCEPT !.pc = "queue", !.req = at[h].req])
        /\ Reads([Idle EXCEPT !.pc = "queue", !.req = at[h].req], object')
    BY <1>3, AfterType DEF Write, Placed
  <2>4. object <= object' /\ gone' \in Seq([certs : [Certs -> Nat], dh : Nat])
    <3>1. object' = object
      BY <2>1 DEF object
    <3>2. object \in Nat
      OBVIOUS
    <3> QED
      BY <1>6, <2>1, <3>1, <3>2
  <2> QED
    BY <2>1, <2>2, <2>3, <2>4, TypesOfWork
<1>4. ASSUME UNCHANGED <<storeVars, aged, scenario, met, given>>, Refuse(h),
             queued' \in BOOLEAN, erred' \in BOOLEAN, mute' \in BOOLEAN, count' \in Nat
      PROVE  Types'
  <2>1. object <= object' /\ gone' \in Seq([certs : [Certs -> Nat], dh : Nat])
    <3>1. object' = object
      BY <1>4 DEF object, storeVars
    <3>2. object \in Nat
      OBVIOUS
    <3> QED
      BY <1>4, <1>6, <3>1, <3>2 DEF storeVars
  <2>2. mem' \in State /\ file' \in State
    BY <1>4 DEF storeVars
  <2>3. met' \subseteq SUBSET Kinds /\ given' \subseteq State
    BY <1>4 DEF Types, TypeOK
  <2>4. at' = [at EXCEPT ![h] = Idle]
    BY <1>4 DEF Refuse
  <2> QED
    BY <1>4, <2>1, <2>2, <2>3, <2>4, IdleType, TypesOfHandler
<1>5. CASE WriteFails(h) \/ Answer(h)
  BY <1>4, <1>5 DEF WriteFails, Answer, Refuse, Types, TypeOK
<1> QED
  BY <1>1, <1>2, <1>3, <1>4, <1>5

LEMMA TypesNext == Types /\ [Next]_vars => Types'
<1> SUFFICES ASSUME Types, [Next]_vars PROVE Types'
  OBVIOUS
<1>1. ASSUME NEW h \in Handlers, Handle(h) PROVE Types'
  BY <1>1, TypesGet, TypesChecks, TypesParams, TypesFind, TypesStore, TypesWrite
  DEF Handle
<1>2. ASSUME NEW h \in Handlers, NEW r \in scenario.requests, Begin(h, r)
      PROVE  Types'
  BY <1>2, TypesBegin
<1>3. CASE Sync
  BY <1>3 DEF Sync, Types, TypeOK, StoreTypeOK, storeVars, object
<1>4. CASE ParamsAge
  BY <1>4 DEF ParamsAge, Types, TypeOK, StoreTypeOK, storeVars, State, object
<1>5. CASE Crash
  <2>1. gone' \in Seq([certs : [Certs -> Nat], dh : Nat])
    BY <1>5 DEF Crash, ReadState
  <2>2. /\ at' \in [Handlers -> Handler]
        /\ \A h \in Handlers : Placed(at'[h]) /\ Reads(at'[h], object')
    BY <1>5, IdleType DEF Crash
  <2> QED
    BY <1>5, <2>1, <2>2 DEF Crash, ReadState, Types, TypeOK, StoreTypeOK
<1>6. CASE UNCHANGED vars
  BY <1>6 DEF vars, storeVars, routeVars, Types, TypeOK, StoreTypeOK, object
<1> QED
  BY <1>1, <1>2, <1>3, <1>4, <1>5, <1>6 DEF Next

-----------------------------------------------------------------------------
(* What a step changes *)

(* The operation that a request stands for.                                *)
LEMMA ChangeMakes ==
  ASSUME Types, NEW h \in Handlers, at[h].pc = "store", ~Panics(h),
         Change(at[h].req, at[h])
  PROVE  LET a == at[h]  r == at[h].req IN
         /\ r.kind \in SiteKinds => mem'.certs = mem.certs /\ mem'.dh = mem.dh
         /\ r.kind \in SiteKinds /\ a.object # object => mem'.sites = mem.sites
         /\ r.kind = "create" /\ a.object = object =>
              mem'.sites = Append(a.read, a.site)
         /\ r.kind \in Patches /\ a.object = object =>
              /\ a.index \in 1..Len(mem.sites)
              /\ mem'.sites = [mem.sites EXCEPT ![a.index] = a.site]
         /\ r.kind = "delete" /\ a.object = object =>
              /\ a.index \in 1..Len(mem.sites)
              /\ mem'.sites = Without(mem.sites, a.index)
         /\ r.kind = "import" =>
              /\ mem'.certs = [mem.certs EXCEPT ![r.cert] = @ + 1]
              /\ mem'.sites = mem.sites /\ mem'.dh = mem.dh
         /\ r.kind = "remove" =>
              /\ mem'.certs = [mem.certs EXCEPT ![r.cert] = 0]
              /\ mem'.sites = mem.sites /\ mem'.dh = mem.dh
         /\ r.kind \in {"params", "generate"} =>
              /\ mem'.certs = mem.certs /\ mem'.sites = mem.sites
              /\ mem'.dh = r.id
         /\ r.kind = "replace" => mem' = r.state /\ object' = object + 1
         /\ r.kind # "replace" => object' = object
<1> DEFINE a == at[h]
           r == at[h].req
<1> USE HandlerTypes
<1>1. /\ r \in Request /\ r.kind \in Kinds /\ a \in Handler /\ Placed(a)
      /\ mem \in State /\ mem.sites \in Seq(Site)
  OBVIOUS
<1>2. ASSUME NEW sites, SetSites(a.object, sites)
      PROVE  /\ mem'.certs = mem.certs /\ mem'.dh = mem.dh
             /\ mem'.sites = IF a.object = object THEN sites ELSE mem.sites
             /\ object' = object
  BY <1>1, <1>2 DEF SetSites, State, object
<1>3. CASE r.kind = "create"
  <2>1. SetSites(a.object, Append(a.read, a.site))
    BY <1>3 DEF Change, Patches, AddSite
  <2> QED
    BY <1>2, <1>3, <2>1 DEF Patches, SiteKinds
<1>4. CASE r.kind \in Patches
  <2>1. SetSites(a.object, [mem.sites EXCEPT ![a.index] = a.site])
    BY <1>4 DEF Change, Patches, UpdateSite
  <2>2. a.object = object => a.index \in 1..Len(mem.sites)
    BY <1>1, <1>4 DEF Panics, Placed, Handler, SiteKinds
  <2> QED
    BY <1>2, <1>4, <2>1, <2>2 DEF Patches, SiteKinds
<1>5. CASE r.kind = "delete"
  <2>1. SetSites(a.object, Without(mem.sites, a.index))
    BY <1>5 DEF Change, Patches, DeleteSite
  <2>2. a.object = object => a.index \in 1..Len(mem.sites)
    BY <1>1, <1>5 DEF Panics, Placed, Handler, SiteKinds
  <2> QED
    BY <1>2, <1>5, <2>1, <2>2 DEF Patches, SiteKinds
<1>6. CASE r.kind = "import"
  <2>1. SetCertificate(r.cert)
    BY <1>6 DEF Change, Patches
  <2> QED
    BY <1>1, <1>6, <2>1 DEF SetCertificate, State, object, Patches, SiteKinds
<1>7. CASE r.kind = "remove"
  <2>1. RemoveCertificate(r.cert)
    BY <1>7 DEF Change, Patches
  <2> QED
    BY <1>1, <1>7, <2>1 DEF RemoveCertificate, State, object, Patches, SiteKinds
<1>8. CASE r.kind = "replace"
  <2>1. ReplaceState(r.state)
    BY <1>8 DEF Change, Patches
  <2> QED
    <3>1. mem' = r.state /\ gone' = Append(gone, Secrets(mem))
      BY <2>1 DEF ReplaceState
    <3>2. mem \in State /\ StoreTypeOK
      OBVIOUS
    <3>3. object' = object + 1
      BY <3>1, <3>2, Objects
    <3> QED
      BY <1>8, <3>1, <3>3 DEF Patches, SiteKinds
<1>9. CASE r.kind \in {"params", "generate"}
  <2>1. SetDHParams(r.id)
    BY <1>9 DEF Change, Patches
  <2> QED
    BY <1>1, <1>9, <2>1 DEF SetDHParams, State, object, Patches, SiteKinds
<1> QED
  BY <1>1, <1>3, <1>4, <1>5, <1>6, <1>7, <1>8, <1>9 DEF Kinds, SiteKinds

(* A handler keeps its request until it is idle, and the others theirs.    *)
LEMMA HandlerKeeps ==
  ASSUME Types, NEW h \in Handlers, Handle(h)
  PROVE  /\ at[h].pc # "idle"
         /\ at' \in [Handlers -> Handler]
         /\ at'[h].pc # "idle" => at'[h].req = at[h].req
         /\ \A x \in Handlers : x # h => at'[x] = at[x]
         /\ UNCHANGED <<met, given, scenario>>
<1> USE HandlerTypes
<1>1. at' \in [Handlers -> Handler]
  <2>1. [Next]_vars
    BY DEF Next
  <2> QED
    BY <2>1, TypesNext DEF Types, TypeOK
<1>2. Idle.pc = "idle"
  BY DEF Idle
<1>3. CASE Refuse(h)
  BY <1>1, <1>2, <1>3 DEF Refuse, Types, TypeOK, Handle, Get, NamesChecked,
     CheckCertificate, CheckUnused, CheckParams, Generated, CheckName, Find, Store,
     MarshalSites, MarshalSecrets, Write, WriteFails, Answer, history
<1>4. CASE ~Refuse(h) /\ \/ Get(h) \/ NamesChecked(h) \/ CheckCertificate(h)
                         \/ CheckUnused(h) \/ CheckParams(h) \/ Generated(h)
                         \/ \E n \in Names : CheckName(h, n)
  <2>1. ASSUME NEW place, Goes(h, place)
        PROVE  at'[h].req = at[h].req /\ \A x \in Handlers : x # h => at'[x] = at[x]
    BY <2>1 DEF Goes, Types, TypeOK, Handler
  <2>2. CASE Get(h)
    BY <1>1, <1>4, <2>1, <2>2 DEF Types, TypeOK, Handler, Get, history
  <2>3. CASE NamesChecked(h) \/ CheckCertificate(h) \/ CheckUnused(h) \/ Generated(h)
    BY <1>1, <1>4, <2>1, <2>3
    DEF NamesChecked, CheckCertificate, CheckUnused, Generated, history
  <2>4. CASE CheckParams(h)
    BY <1>1, <1>4, <2>4 DEF Types, TypeOK, Handler, CheckParams, history
  <2>5. ASSUME NEW n \in Names, CheckName(h, n)
        PROVE  /\ at[h].pc # "idle" /\ at'[h].req = at[h].req
               /\ \A x \in Handlers : x # h => at'[x] = at[x]
               /\ UNCHANGED history
    BY <1>4, <2>5 DEF Types, TypeOK, Handler, CheckName
  <2> QED
    BY <1>1, <1>4, <2>2, <2>3, <2>4, <2>5 DEF history
<1>5. CASE ~Refuse(h) /\ (Find(h) \/ MarshalSites(h) \/ MarshalSecrets(h))
  BY <1>1, <1>5 DEF Types, TypeOK, Handler, Find, MarshalSites, MarshalSecrets,
     history
<1>6. CASE ~Refuse(h) /\ (Store(h) \/ Write(h) \/ WriteFails(h) \/ Answer(h))
  <2>1. \A p \in {"sites", "queue"} :
          [Idle EXCEPT !.pc = p, !.req = at[h].req].req = at[h].req
    BY IdleType DEF Handler
  <2> QED
    BY <1>1, <1>6, <2>1 DEF Types, TypeOK, Store, Write, WriteFails, Answer, history
<1> QED
  BY <1>3, <1>4, <1>5, <1>6 DEF Handle

(* Requests that are handled at once have met, and the state that one of   *)
(* them brings has come from outside.                                      *)
MetInv ==
  /\ \A x, y \in Busy : x # y => {at[x].req.kind, at[y].req.kind} \in met
  /\ \A x \in Busy : at[x].req.kind = "replace" => at[x].req.state \in given

LEMMA MetNext == Types /\ MetInv /\ [Next]_vars => MetInv'
<1> SUFFICES ASSUME Types, MetInv, [Next]_vars PROVE MetInv'
  OBVIOUS
<1> USE DEF MetInv, Busy
<1>1. ASSUME NEW h \in Handlers, Handle(h) PROVE MetInv'
  BY <1>1, HandlerKeeps
<1>2. ASSUME NEW h \in Handlers, NEW r \in scenario.requests, Begin(h, r)
      PROVE  MetInv'
  <2>1. /\ at'[h].req.kind = r.kind /\ \A x \in Handlers : x # h => at'[x] = at[x]
        /\ met' = met \cup {{r.kind, at[x].req.kind} : x \in Busy}
        /\ given \subseteq given'
        /\ r.kind = "replace" => at'[h].req.state \in given'
    <3> DEFINE req == IF r.kind \in {"params", "generate"}
                      THEN [r EXCEPT !.id = count + 1] ELSE r
    <3>1. r \in Request
      BY RoutesAssumption DEF Types, TypeOK
    <3>2. req.kind = r.kind /\ (r.kind = "replace" => req = r)
      BY <3>1 DEF Request
    <3>3. at'[h].req = req
      BY <1>2, IdleType DEF Begin, Types, TypeOK, Handler
    <3> QED
      BY <1>2, <3>2, <3>3 DEF Begin, Types, TypeOK
  <2>2. ASSUME NEW x \in Busy', NEW y \in Busy', x # y
        PROVE  {at'[x].req.kind, at'[y].req.kind} \in met'
    <3>1. CASE x # h /\ y # h
      BY <2>1, <2>2, <3>1
    <3>2. CASE x = h
      BY <2>1, <2>2, <3>2
    <3>3. CASE y = h
      <4>1. {r.kind, at[x].req.kind} \in met' /\ at'[x] = at[x]
        BY <2>1, <2>2, <3>3
      <4>2. {at'[x].req.kind, at'[y].req.kind} = {r.kind, at[x].req.kind}
        BY <2>1, <3>3, <4>1
      <4> QED
        BY <4>1, <4>2
    <3> QED
      BY <3>1, <3>2, <3>3
  <2>3. ASSUME NEW x \in Busy', at'[x].req.kind = "replace"
        PROVE  at'[x].req.state \in given'
    BY <2>1, <2>3
  <2> QED
    BY <2>2, <2>3
<1>3. CASE Sync \/ ParamsAge
  BY <1>3 DEF Sync, ParamsAge
<1>4. CASE Crash
  BY <1>4 DEF Crash, Idle
<1>5. CASE UNCHANGED vars
  BY <1>5 DEF vars, routeVars
<1> QED
  BY <1>1, <1>2, <1>3, <1>4, <1>5 DEF Next

-----------------------------------------------------------------------------
(* The invariants *)

(* Of two requests about certificates or the whole state and another one,  *)
(* one has ended before the other begins.                                  *)
NoRemovals == \A m \in met : m \cap {"remove", "replace"} = {}

(* The certificates that states from outside had sites for, and not.       *)
Lacked == UNION {Bare(s) : s \in given}

Backed(s, t, lacked) == HasCert(s, t) \/ t \in lacked
Covered(s, sites, lacked) ==
  \A i \in 1..Len(sites) : Backed(s, sites[i].tls, lacked)
Unused(c, sites)  == \A i \in 1..Len(sites) : sites[i].tls # c

(* What a handler has found out stays true: the certificate of its site is *)
(* there, and those of the sites it has read, and nobody replaces the      *)
(* object that it writes.                                                  *)
CertKnown(a, s, lacked) ==
  /\ a.pc \in {"find", "store"} /\ a.req.kind \in {"create", "tls"}
     => HasCert(s, a.site.tls)
  /\ a.pc \in {"names", "find", "store"} /\ a.req.kind \in {"aliases", "deploy"}
     => Backed(s, a.site.tls, lacked)
  /\ a.pc = "store" /\ a.req.kind = "create" => Covered(s, a.read, lacked)
  /\ a.pc = "store" /\ a.req.kind = "remove" => Unused(a.req.cert, s.sites)
  /\ a.pc = "secrets" => Covered(s, a.data.sites, lacked)
  /\ a.pc = "write" => Covered(a.data, a.data.sites, lacked)

CertInv ==
  NoRemovals =>
    /\ Covered(mem, mem.sites, Lacked) /\ Covered(file, file.sites, Lacked)
    /\ \A h \in Handlers :
         /\ CertKnown(at[h], mem, Lacked)
         /\ at[h].pc = "secrets" => at[h].object = object

(* One request about sites at a time, and names told apart by what came    *)
(* from outside.                                                           *)
NamesGiven  == \A s \in given : Unique(s)
SitesInTurn == ~Met(SiteKinds \cup {"replace"}) /\ NamesGiven

Distinct(sites) ==
  \A i, j \in 1..Len(sites) :
    i # j => NamesOf(sites[i]) \cap NamesOf(sites[j]) = {}

Free(n, sites) == \A i \in 1..Len(sites) : n \notin NamesOf(sites[i])

(* Nobody but a site has a name.                                           *)
Own(n, site, sites) ==
  \A i \in 1..Len(sites) :
    n \in NamesOf(sites[i]) => sites[i].domain = site.domain

NameKnown(a, s) ==
  /\ a.req.kind = "create" =>
       /\ a.pc = "names" => \A n \in NamesOf(a.site) \ a.todo : Free(n, s.sites)
       /\ a.pc \in {"cert", "find", "store"} =>
            \A n \in NamesOf(a.site) : Free(n, s.sites)
       /\ a.pc = "store" => a.read = s.sites
  /\ a.req.kind \in Patches =>
       /\ a.pc \in {"names", "cert", "find", "store"} =>
            \E i \in 1..Len(s.sites) :
              /\ a.req.name \in NamesOf(s.sites[i])
              /\ a.site = Patched(s.sites[i], a.req)
       /\ a.pc = "store" =>
            /\ a.index \in 1..Len(s.sites)
            /\ s.sites[a.index].domain = a.site.domain
  /\ a.req.kind = "aliases" =>
       /\ a.pc = "names" =>
            \A n \in a.req.aliases \ a.todo : Own(n, a.site, s.sites)
       /\ a.pc \in {"find", "store"} =>
            \A n \in a.req.aliases : Own(n, a.site, s.sites)
  /\ a.req.kind = "delete" /\ a.pc = "store" =>
       /\ a.index \in 1..Len(s.sites)
       /\ a.req.name \in NamesOf(s.sites[a.index])
  /\ a.pc \in {"secrets", "write"} => Distinct(a.data.sites)

NameInv ==
  SitesInTurn =>
    /\ Distinct(mem.sites) /\ Distinct(file.sites)
    /\ \A h \in Handlers :
         /\ NameKnown(at[h], mem)
         /\ at[h].pc = "store" /\ at[h].req.kind \in SiteKinds
            => at[h].object = object

(* One request at a time: what the answers allow, and what the one that is *)
(* handled has done to it.                                                 *)
Written == {"sites", "secrets", "write", "queue"}

Allowed(a, m, f, states, old) ==
  /\ a.pc \notin Written => Abstract(m) \in states
  /\ a.pc # "queue" => Abstract(f) \in states
  /\ a.pc \in Written => Abstract(m) \in After(a.req, states, old)
  /\ a.pc = "queue" => Abstract(f) \in After(a.req, states, old)
  /\ a.pc = "secrets" => a.data.sites = m.sites
  /\ a.pc = "write" => a.data = m
  /\ a.pc \in {"used", "store"} /\ a.req.kind = "remove" => m.certs[a.req.cert] # 0
  /\ a.pc \in {"generate", "store"} /\ a.req.kind = "generate"
     => m.dh \in {0} \cup old

InTurn == met = {} /\ NamesGiven

AllowedInv ==
  InTurn =>
    /\ Busy = {} => Abstract(mem) \in may /\ Abstract(file) \in may
    /\ \A h \in Busy : Allowed(at[h], mem, file, may, aged)

(* A change that the last sync has not read is queued or will be.          *)
NotRemoved == \A m \in met : "remove" \notin m

Pending(silent) ==
  \E h \in Handlers : at[h].pc \in Written /\ at[h].req.kind \notin silent

AppliedInv ==
  NotRemoved =>
    /\ \/ applied.sites = Deployed(mem).sites
       \/ queued \/ erred \/ Pending({"remove", "params"})
    /\ \/ applied.dh = mem.dh \/ mute
       \/ queued \/ erred \/ Pending({"remove"})
    /\ \A h \in Handlers :
         at[h].pc = "store" /\ at[h].req.kind = "remove"
         => Unused(at[h].req.cert, mem.sites)

-----------------------------------------------------------------------------
(* What the steps of a handler make of it *)

LEMMA GoesMakes ==
  ASSUME Types, NEW h \in Handlers, NEW place, Goes(h, place)
  PROVE  LET a == at[h]  b == at'[h] IN
         /\ b.pc = place /\ b.req = a.req /\ b.site = a.site /\ b.todo = a.todo
         /\ b.object = a.object /\ b.index = a.index /\ b.read = a.read
         /\ b.data = a.data
BY DEF Goes, Types, TypeOK, Handler

LEMMA RefuseMakes ==
  ASSUME Types, NEW h \in Handlers, Refuse(h)
  PROVE  at'[h] = Idle /\ at'[h].pc = "idle" /\ at'[h].req.kind = "none"
BY DEF Refuse, Types, TypeOK, Idle, NoRequest

LEMMA BeginMakes ==
  ASSUME Types, NEW h \in Handlers, NEW r \in scenario.requests, Begin(h, r)
  PROVE  LET b == at'[h] IN
         /\ b.pc = FirstPlace(r.kind)
         /\ b.req.kind = r.kind /\ b.req \in Request
         /\ r.kind = "create" => b.site = r.site /\ b.todo = NamesOf(r.site)
         /\ \A x \in Handlers : x # h => at'[x] = at[x]
         /\ met \subseteq met' /\ UNCHANGED storeVars
<1> DEFINE req == IF r.kind \in {"params", "generate"}
                  THEN [r EXCEPT !.id = count + 1] ELSE r
<1>1. r \in Request
  BY RoutesAssumption DEF Types, TypeOK
<1>2. req.kind = r.kind /\ req \in Request
  BY <1>1, RequestFields DEF Request, Types, TypeOK
<1>3. at'[h].req = req
  BY IdleType DEF Begin, Types, TypeOK, Handler
<1> HIDE DEF req
<1> QED
  BY <1>2, <1>3, IdleType DEF Begin, Types, TypeOK, Handler

LEMMA GetMakes ==
  ASSUME Types, NEW h \in Handlers, Get(h), ~Refuse(h)
  PROVE  LET r == at[h].req
             b == at'[h]
             i == GetSite(mem.sites, r.name)
         IN  /\ r \in Request /\ r.kind \in Patches \cup {"delete"}
             /\ i \in 1..Len(mem.sites) /\ r.name \in NamesOf(mem.sites[i])
             /\ b.req = r
             /\ r.kind = "delete" => b.pc = "find"
             /\ r.kind \in Patches =>
                  /\ b.site = Patched(mem.sites[i], r)
                  /\ b.pc \in {"names", "cert", "find"}
                  /\ b.pc = "names" <=> r.kind = "aliases"
                  /\ b.pc = "cert" => r.kind = "tls"
                  /\ b.pc = "find" /\ r.kind = "tls" => r.cert = SelfSigned
                  /\ r.kind = "aliases" => b.todo = r.aliases
<1> DEFINE r == at[h].req
           i == GetSite(mem.sites, r.name)
<1> USE HandlerTypes
<1>1. /\ r \in Request /\ r.kind \in Patches \cup {"delete"}
      /\ i \in 0..Len(mem.sites) /\ (i # 0 => r.name \in NamesOf(mem.sites[i]))
  BY GetSiteFinds DEF Get, Placed
<1>2. i # 0
  BY DEF Get
<1> HIDE DEF i
<1>3. CASE r.kind = "delete"
  <2>1. Goes(h, "find")
    BY <1>2, <1>3 DEF Get, i
  <2> QED
    BY <1>1, <1>2, <1>3, <2>1, GoesMakes DEF i, Patches
<1>4. CASE r.kind \in Patches
  <2> DEFINE p == CASE r.kind = "aliases" -> "names"
                    [] r.kind = "tls" /\ r.cert # SelfSigned -> "cert"
                    [] OTHER -> "find"
             s == Patched(mem.sites[i], r)
             t == IF r.kind = "aliases" THEN r.aliases ELSE {}
  <2>1. at' = [at EXCEPT ![h].pc = p, ![h].site = s, ![h].todo = t]
    BY <1>2, <1>4 DEF Get, i, Patches
  <2>2. /\ p \in {"names", "cert", "find"}
        /\ p = "names" <=> r.kind = "aliases"
        /\ p = "cert" => r.kind = "tls"
        /\ p = "find" /\ r.kind = "tls" => r.cert = SelfSigned
    OBVIOUS
  <2> HIDE DEF p, s
  <2>3. /\ at'[h].pc = p /\ at'[h].site = s /\ at'[h].req = r
        /\ r.kind = "aliases" => at'[h].todo = r.aliases
    BY <2>1 DEF Types, TypeOK, Handler
  <2> QED
    BY <1>1, <1>2, <1>4, <2>2, <2>3 DEF i, s, Patches
<1> QED
  BY <1>1, <1>3, <1>4

LEMMA CheckNameMakes ==
  ASSUME Types, NEW h \in Handlers, NEW n \in Names, CheckName(h, n), ~Refuse(h)
  PROVE  LET a == at[h]  b == at'[h] IN
         /\ a.pc = "names" /\ b.pc = "names" /\ b.req = a.req /\ b.site = a.site
         /\ b.todo = a.todo \ {n} /\ n \in a.todo
         /\ LET i == GetSite(mem.sites, n) IN
            i # 0 => a.req.kind = "aliases" /\ mem.sites[i].domain = a.site.domain
BY DEF CheckName, Types, TypeOK, Handler

LEMMA FindMakes ==
  ASSUME Types, NEW h \in Handlers, Find(h), ~Refuse(h)
  PROVE  LET a == at[h]
             b == at'[h]
         IN  /\ a.req \in Request /\ a.req.kind \in SiteKinds
             /\ b.pc = "store" /\ b.req = a.req /\ b.site = a.site
             /\ b.object = object /\ b.read = mem.sites
             /\ b.index # 0
             /\ a.req.kind \in Patches => b.index = SameDomain(mem.sites, a.site)
             /\ a.req.kind = "delete" => b.index = GetSite(mem.sites, a.req.name)
<1> DEFINE r == at[h].req
           i == CASE r.kind \in Patches  -> SameDomain(mem.sites, at[h].site)
                  [] r.kind = "delete"   -> GetSite(mem.sites, r.name)
                  [] r.kind = "create"   -> Len(mem.sites) + 1
<1>1. at' = [at EXCEPT ![h].pc = "store", ![h].object = object,
                       ![h].index = i, ![h].read = mem.sites] /\ i # 0
  BY DEF Find
<1>2. r \in Request /\ r.kind \in SiteKinds
  BY HandlerTypes DEF Find, Placed
<1>3. /\ r.kind \in Patches => i = SameDomain(mem.sites, at[h].site)
      /\ r.kind = "delete" => i = GetSite(mem.sites, r.name)
  BY DEF Patches
<1> HIDE DEF i
<1>4. /\ at'[h].pc = "store" /\ at'[h].req = r /\ at'[h].site = at[h].site
      /\ at'[h].object = object /\ at'[h].read = mem.sites /\ at'[h].index = i
  BY <1>1 DEF Types, TypeOK, Handler
<1> QED
  BY <1>1, <1>2, <1>3, <1>4

LEMMA MarshalMakes ==
  ASSUME Types, NEW h \in Handlers
  PROVE  LET a == at[h]  b == at'[h] IN
         /\ MarshalSites(h) => /\ a.pc = "sites" /\ b.pc = "secrets"
                               /\ b.req = a.req /\ b.data = mem /\ b.object = object
         /\ MarshalSecrets(h) => /\ a.pc = "secrets" /\ b.pc = "write"
                                 /\ b.req = a.req
                                 /\ b.data.sites = a.data.sites
                                 /\ a.object = object =>
                                      b.data.certs = mem.certs /\ b.data.dh = mem.dh
<1>1. CASE MarshalSites(h)
  BY <1>1 DEF Types, TypeOK, Handler, MarshalSites, MarshalSecrets
<1>2. CASE MarshalSecrets(h)
  <2>1. PICK d \in State : /\ d = WrittenData(at[h])
                           /\ at' = [at EXCEPT ![h] = [at[h] EXCEPT !.pc = "write",
                                                  !.object = 0, !.data = d]]
    BY <1>2, DataWritten
  <2>2. /\ d.sites = at[h].data.sites
        /\ at[h].object = object => d.certs = mem.certs /\ d.dh = mem.dh
    BY <2>1, HandlerTypes DEF Handler, State, WrittenData, Secrets
  <2>3. /\ at'[h].pc = "write" /\ at'[h].req = at[h].req /\ at'[h].data = d
        /\ at[h].pc = "secrets"
    <3>1. at'[h] = [at[h] EXCEPT !.pc = "write", !.object = 0, !.data = d]
      BY <2>1 DEF Types, TypeOK
    <3>2. at[h].pc = "secrets"
      BY <1>2 DEF MarshalSecrets
    <3> QED
      BY <3>1, <3>2, HandlerTypes DEF Handler
  <2> QED
    BY <1>2, <2>2, <2>3 DEF MarshalSites, MarshalSecrets
<1> QED
  BY <1>1, <1>2

LEMMA StoreMakes ==
  ASSUME Types, NEW h \in Handlers, Store(h), ~Panics(h)
  PROVE  /\ at[h].pc = "store" /\ at'[h].pc = "sites" /\ at'[h].req = at[h].req
         /\ Change(at[h].req, at[h])
<1>1. at' = [at EXCEPT ![h] = [Idle EXCEPT !.pc = "sites", !.req = at[h].req]]
  BY DEF Store
<1>2. /\ [Idle EXCEPT !.pc = "sites", !.req = at[h].req].req = at[h].req
      /\ [Idle EXCEPT !.pc = "sites", !.req = at[h].req].pc = "sites"
  BY IdleType DEF Handler
<1> QED
  BY <1>1, <1>2 DEF Store, Types, TypeOK

LEMMA WriteMakes ==
  ASSUME Types, NEW h \in Handlers, Write(h)
  PROVE  /\ at[h].pc = "write" /\ at'[h].pc = "queue" /\ at'[h].req = at[h].req
         /\ file' = at[h].data /\ UNCHANGED <<mem, object>>
<1>1. at' = [at EXCEPT ![h] = [Idle EXCEPT !.pc = "queue", !.req = at[h].req]]
  BY DEF Write
<1>2. /\ [Idle EXCEPT !.pc = "queue", !.req = at[h].req].req = at[h].req
      /\ [Idle EXCEPT !.pc = "queue", !.req = at[h].req].pc = "queue"
  BY IdleType DEF Handler
<1> QED
  BY <1>1, <1>2 DEF Write, WriteFile, Types, TypeOK, object

LEMMA StateFacts ==
  ASSUME NEW s \in State
  PROVE  /\ \A L : Bare(s) \subseteq L <=> Covered(s, s.sites, L)
         /\ Unique(s) <=> Distinct(s.sites)
         /\ s.sites \in Seq(Site)
<1>1. s.sites \in Seq(Site)
  BY DEF State
<1>2. DOMAIN s.sites = 1..Len(s.sites)
  BY <1>1
<1> QED
  BY <1>1, <1>2 DEF Bare, Backed, Covered, Unique, Distinct

-----------------------------------------------------------------------------
(* Certificates *)

(* A step of a handler that changes nothing but its own place.             *)
LEMMA CertTest ==
  ASSUME Types, CertInv, NEW h \in Handlers, UNCHANGED storeVars,
         met \subseteq met', Lacked \subseteq Lacked',
         \A x \in Handlers : x # h => at'[x] = at[x],
         NoRemovals => /\ CertKnown(at'[h], mem, Lacked)
                       /\ at'[h].pc = "secrets" => at'[h].object = object
  PROVE  CertInv'
<1>1. NoRemovals' => NoRemovals
  BY DEF NoRemovals
<1>2. ASSUME NoRemovals, NEW x \in Handlers
      PROVE  /\ CertKnown(at'[x], mem, Lacked)
             /\ at'[x].pc = "secrets" => at'[x].object = object
  BY <1>2 DEF CertInv
<1>3. mem' = mem /\ file' = file /\ object' = object
  BY DEF storeVars, object
<1>4. ASSUME NEW s, NEW sites, Covered(s, sites, Lacked)
      PROVE  Covered(s, sites, Lacked')
  BY <1>4 DEF Covered, Backed
<1>5. ASSUME NEW a, NEW s, CertKnown(a, s, Lacked)
      PROVE  CertKnown(a, s, Lacked')
  BY <1>4, <1>5 DEF CertKnown, Backed
<1> QED
  BY <1>1, <1>2, <1>3, <1>4, <1>5 DEF CertInv

LEMMA CertRefuse ==
  ASSUME Types, CertInv, NEW h \in Handlers, Refuse(h),
         UNCHANGED <<storeVars, met, given>>
  PROVE  CertInv'
<1>1. CertKnown(at'[h], mem, Lacked) /\ at'[h].pc # "secrets"
  BY RefuseMakes DEF CertKnown
<1>2. \A x \in Handlers : x # h => at'[x] = at[x]
  BY DEF Refuse, Types, TypeOK
<1>3. Lacked' = Lacked
  BY DEF Lacked
<1> QED
  BY <1>1, <1>2, <1>3, CertTest

LEMMA CertSteps ==
  ASSUME Types, CertInv, NEW h \in Handlers, Handle(h), ~Refuse(h),
         \/ Get(h) \/ NamesChecked(h) \/ CheckCertificate(h) \/ CheckUnused(h)
         \/ CheckParams(h) \/ Generated(h)
         \/ \E n \in Names : CheckName(h, n)
         \/ Find(h) \/ MarshalSites(h) \/ MarshalSecrets(h)
  PROVE  CertInv'
<1> DEFINE a == at[h]
           b == at'[h]
<1> USE HandlerTypes, HandlerKeeps
<1>1. SUFFICES ASSUME NoRemovals
               PROVE  /\ CertKnown(b, mem, Lacked)
                      /\ b.pc = "secrets" => b.object = object
  <2>1. UNCHANGED storeVars
    BY DEF Get, NamesChecked, CheckCertificate, CheckUnused, CheckParams, Generated,
           CheckName, Find, MarshalSites, MarshalSecrets
  <2>2. Lacked' = Lacked
    BY DEF Lacked
  <2> QED
    BY <2>1, <2>2, CertTest
<1>2. /\ CertKnown(a, mem, Lacked) /\ Covered(mem, mem.sites, Lacked) /\ Placed(a)
      /\ a.pc = "secrets" => a.object = object
  BY <1>1 DEF CertInv
<1>3. CASE Get(h)
  <2> DEFINE i == GetSite(mem.sites, a.req.name)
  <2>1. mem.sites[i] \in Site /\ Backed(mem, mem.sites[i].tls, Lacked)
    BY <1>2, <1>3, GetMakes DEF Covered
  <2>2. a.req.kind \in Patches /\ a.req.kind # "tls" => b.site.tls = mem.sites[i].tls
    BY <1>3, <2>1, GetMakes, PatchedType
  <2>3. a.req.kind = "tls" => b.site.tls = a.req.cert
    BY <1>3, <2>1, GetMakes, PatchedType DEF Patches
  <2> HIDE DEF i
  <2>4. /\ b.pc = "find" /\ a.req.kind = "tls" => HasCert(mem, b.site.tls)
        /\ a.req.kind \in {"aliases", "deploy"} => Backed(mem, b.site.tls, Lacked)
    BY <1>3, <2>1, <2>2, <2>3, GetMakes DEF HasCert, Patches
  <2> QED
    BY <1>3, <2>4, GetMakes DEF CertKnown, Patches
<1>4. CASE NamesChecked(h)
  <2>1. Goes(h, IF a.req.kind = "create" /\ a.site.tls # SelfSigned
                THEN "cert" ELSE "find")
    BY <1>4 DEF NamesChecked
  <2>2. a.req.kind = "create" \/ a.req.kind = "aliases"
    BY <1>2, <1>4 DEF NamesChecked, Placed
  <2> QED
    BY <1>2, <1>4, <2>1, <2>2, GoesMakes DEF CertKnown, Backed, HasCert, NamesChecked
<1>5. CASE CheckCertificate(h)
  <2>1. \/ a.req.kind = "remove" /\ Goes(h, "used")
        \/ a.req.kind # "remove" /\ mem.certs[a.site.tls] # 0 /\ Goes(h, "find")
    BY <1>5 DEF CheckCertificate
  <2> QED
    BY <2>1, GoesMakes DEF CertKnown, Backed, HasCert
<1>6. CASE CheckUnused(h)
  <2>1. Goes(h, "store") /\ Unused(a.req.cert, mem.sites) /\ a.req.kind = "remove"
    BY <1>2, <1>6 DEF CheckUnused, Unused, Placed
  <2> QED
    BY <2>1, GoesMakes DEF CertKnown, Patches
<1>7. CASE CheckParams(h) \/ Generated(h)
  <2>1. a.req.kind = "generate"
    BY <1>2, <1>7 DEF CheckParams, Generated, Placed
  <2>2. b.pc \in {"generate", "store"} /\ b.req = a.req
    <3>1. CASE CheckParams(h)
      BY <3>1 DEF CheckParams, Types, TypeOK, Handler
    <3>2. CASE Generated(h)
      BY <3>2, GoesMakes DEF Generated
    <3> QED
      BY <1>7, <3>1, <3>2
  <2> QED
    BY <2>1, <2>2 DEF CertKnown, Patches
<1>8. ASSUME NEW n \in Names, CheckName(h, n) PROVE CertKnown(b, mem, Lacked) /\ b.pc # "secrets"
  BY <1>2, <1>8, CheckNameMakes DEF CertKnown
<1>9. CASE Find(h)
  BY <1>2, <1>9, FindMakes DEF CertKnown, Find, SiteKinds, Patches
<1>10. CASE MarshalSites(h)
  BY <1>2, <1>10, MarshalMakes DEF CertKnown
<1>11. CASE MarshalSecrets(h)
  <2>1. Covered(b.data, b.data.sites, Lacked)
    BY <1>2, <1>11, MarshalMakes DEF CertKnown, Covered, Backed, HasCert
  <2> QED
    BY <1>11, <2>1, MarshalMakes DEF CertKnown
<1> QED
  BY <1>3, <1>4, <1>5, <1>6, <1>7, <1>8, <1>9, <1>10, <1>11

LEMMA ListedSite ==
  ASSUME NEW sites \in Seq(Site), NEW i \in 1..Len(sites)
  PROVE  sites[i] \in Site /\ sites[i].tls \in Certs \cup {SelfSigned}
<1>1. sites[i] \in Site
  OBVIOUS
<1> QED
  BY <1>1 DEF Site

(* A removal and the replacement of the state are alone; what else changes *)
(* the state leaves the certificates there, and adds sites that have one.  *)
LEMMA CertStore ==
  ASSUME Types, MetInv, CertInv, NEW h \in Handlers, Handle(h), Store(h)
  PROVE  CertInv'
<1> DEFINE a == at[h]
           r == at[h].req
<1> USE HandlerTypes, HandlerKeeps
<1>1. CASE Panics(h)
  BY <1>1, CertRefuse DEF Store, history
<1>2. CASE ~Panics(h)
  <2>1. SUFFICES ASSUME NoRemovals
                 PROVE  /\ Covered(mem', mem'.sites, Lacked) /\ Covered(file', file'.sites, Lacked)
                        /\ \A x \in Handlers :
                             /\ CertKnown(at'[x], mem', Lacked)
                             /\ at'[x].pc = "secrets" => at'[x].object = object'
    BY DEF CertInv, NoRemovals, Lacked
  <2>2. /\ Covered(mem, mem.sites, Lacked) /\ Covered(file, file.sites, Lacked)
        /\ CertKnown(a, mem, Lacked) /\ Placed(a) /\ a.pc = "store"
        /\ r \in Request /\ r.kind \in Kinds /\ mem \in State /\ mem' \in State
        /\ a \in Handler
    BY <1>2, <2>1, StoreMakes, ChangeTypes DEF CertInv
  <2>3. file' = file
    BY <1>2, StoreMakes, ChangeTypes
  <2>4. CertKnown(at'[h], mem', Lacked) /\ at'[h].pc # "secrets"
    BY <1>2, StoreMakes DEF CertKnown
  <2>5. CASE r.kind \in {"remove", "replace"}
    <3>1. ASSUME NEW x \in Handlers, x # h, at[x].pc # "idle" PROVE FALSE
      <4>1. {at[h].req.kind, at[x].req.kind} \in met
        BY <2>2, <3>1 DEF MetInv, Busy
      <4> QED
        BY <2>1, <2>5, <4>1 DEF NoRemovals
    <3>2. \A x \in Handlers :
            x # h => CertKnown(at'[x], mem', Lacked) /\ at'[x].pc # "secrets"
      BY <3>1 DEF CertKnown
    <3>3. Covered(mem', mem'.sites, Lacked)
      <4>1. CASE r.kind = "replace"
        <5>1. mem' = r.state /\ r.state \in given
          BY <1>2, <2>2, <4>1, StoreMakes, ChangeMakes DEF MetInv, Busy
        <5>2. Bare(r.state) \subseteq Lacked
          BY <5>1 DEF Lacked
        <5> QED
          BY <2>2, <5>1, <5>2, StateFacts
      <4>2. CASE r.kind = "remove"
        <5>1. /\ mem'.sites = mem.sites /\ Unused(r.cert, mem.sites)
              /\ mem'.certs = [mem.certs EXCEPT ![r.cert] = 0]
          BY <1>2, <2>2, <4>2, StoreMakes, ChangeMakes DEF CertKnown
        <5>2. ASSUME NEW t \in Certs \cup {SelfSigned}, t # r.cert, Backed(mem, t, Lacked)
              PROVE  Backed(mem', t, Lacked)
          BY <2>2, <5>1, <5>2 DEF Backed, HasCert, State
        <5>3. \A i \in 1..Len(mem.sites) : mem.sites[i].tls \in Certs \cup {SelfSigned}
          BY <2>2, ListedSite
        <5> QED
          BY <2>2, <5>1, <5>2, <5>3 DEF Covered, Unused
      <4> QED
        BY <2>5, <4>1, <4>2
    <3> QED
      BY <2>2, <2>3, <2>4, <3>2, <3>3
  <2>6. CASE r.kind \notin {"remove", "replace"}
    <3>1. ASSUME NEW t \in Certs \cup {SelfSigned}
          PROVE  /\ HasCert(mem, t) => HasCert(mem', t)
                 /\ Backed(mem, t, Lacked) => Backed(mem', t, Lacked)
      <4>1. \/ mem'.certs = mem.certs
            \/ /\ r.kind = "import" /\ r.cert \in Certs
               /\ mem'.certs = [mem.certs EXCEPT ![r.cert] = @ + 1]
        BY <1>2, <2>2, <2>6, StoreMakes, ChangeMakes, RequestFields DEF Kinds
      <4>2. mem.certs \in [Certs -> Nat]
        BY <2>2 DEF State
      <4>3. t \in Certs /\ mem.certs[t] # 0 => mem'.certs[t] # 0
        BY <4>1, <4>2
      <4> QED
        BY <3>1, <4>3 DEF Backed, HasCert
    <3>2. ASSUME NEW sites \in Seq(Site), Covered(mem, sites, Lacked)
          PROVE  Covered(mem', sites, Lacked)
      BY <3>1, <3>2, ListedSite DEF Covered
    <3>3. ASSUME NEW x \in Handlers, x # h
          PROVE  /\ CertKnown(at'[x], mem', Lacked)
                 /\ at'[x].pc = "secrets" => at'[x].object = object'
      <4>1. /\ at'[x] = at[x] /\ CertKnown(at[x], mem, Lacked) /\ object' = object
            /\ at[x].pc = "secrets" => at[x].object = object
            /\ at[x] \in Handler /\ Placed(at[x])
        <5>1. object' = object
          BY <1>2, <2>2, <2>6, StoreMakes, ChangeMakes
        <5> QED
          BY <2>1, <3>3, <5>1 DEF CertInv
      <4>2. at[x].pc # "idle" => at[x].req.kind # "remove"
        <5>1. at[x].pc # "idle" => {at[h].req.kind, at[x].req.kind} \in met
          BY <2>2, <3>3 DEF MetInv, Busy
        <5> QED
          BY <2>1, <5>1 DEF NoRemovals
      <4>3. at[x].read \in Seq(Site) /\ at[x].data.sites \in Seq(Site)
        BY <4>1 DEF Handler, State
      <4>4. /\ at[x].pc \in {"find", "store", "names"}
            /\ at[x].req.kind \in Patches \cup {"create"}
            => at[x].site.tls \in Certs \cup {SelfSigned}
        BY <4>1 DEF Placed, Site
      <4> QED
        BY <3>1, <3>2, <4>1, <4>2, <4>3, <4>4 DEF CertKnown, Patches
    <3>4. Covered(mem', mem'.sites, Lacked)
      <4>1. mem.sites \in Seq(Site)
        OBVIOUS
      <4>2. Covered(mem', mem.sites, Lacked)
        BY <2>2, <3>2, <4>1
      <4>3. CASE mem'.sites = mem.sites
        BY <4>2, <4>3
      <4>4. CASE r.kind = "create" /\ a.object = object
        <5>1. mem'.sites = Append(a.read, a.site) /\ a.read \in Seq(Site) /\ a.site \in Site
          BY <1>2, <2>2, <4>4, StoreMakes, ChangeMakes DEF Placed, Handler
        <5>2. Covered(mem', a.read, Lacked) /\ Backed(mem', a.site.tls, Lacked)
          BY <2>2, <3>1, <3>2, <4>4, <5>1 DEF CertKnown, Backed, Site
        <5> QED
          BY <5>1, <5>2 DEF Covered
      <4>5. CASE r.kind \in Patches /\ a.object = object
        <5>1. /\ a.index \in 1..Len(mem.sites) /\ a.site \in Site
              /\ mem'.sites = [mem.sites EXCEPT ![a.index] = a.site]
          BY <1>2, <2>2, <4>5, StoreMakes, ChangeMakes DEF Placed
        <5>2. Backed(mem', a.site.tls, Lacked)
          BY <2>2, <3>1, <4>5, <5>1 DEF CertKnown, Backed, Patches, Site
        <5> QED
          BY <4>1, <4>2, <5>1, <5>2 DEF Covered
      <4>6. CASE r.kind = "delete" /\ a.object = object
        <5>1. /\ a.index \in 1..Len(mem.sites)
              /\ mem'.sites = Without(mem.sites, a.index)
          BY <1>2, <2>2, <4>6, StoreMakes, ChangeMakes
        <5>2. /\ Len(mem'.sites) = Len(mem.sites) - 1 /\ Len(mem.sites) \in Nat
              /\ \A k \in 1..Len(mem'.sites) :
                   mem'.sites[k] = mem.sites[k] \/ mem'.sites[k] = mem.sites[Len(mem.sites)]
          <6>1. Len(mem.sites) \in Nat
            BY <4>1
          <6> DEFINE old == mem.sites
          <6>2. old \in Seq(Site) /\ a.index \in 1..Len(old)
            BY <4>1, <5>1
          <6> HIDE DEF old
          <6>3. /\ Len(Without(old, a.index)) = Len(old) - 1
                /\ \A k \in 1 .. Len(old) - 1 : Without(old, a.index)[k] =
                     IF k = a.index THEN old[Len(old)] ELSE old[k]
            BY <6>2, WithoutSites
          <6> QED
            BY <5>1, <6>1, <6>3 DEF old
        <5> QED
          BY <4>2, <5>1, <5>2 DEF Covered
      <4> QED
        BY <1>2, <2>2, <2>6, <4>3, <4>4, <4>5, <4>6, StoreMakes, ChangeMakes
        DEF Kinds, SiteKinds
    <3> QED
      BY <2>2, <2>3, <2>4, <3>3, <3>4
  <2> QED
    BY <2>5, <2>6
<1> QED
  BY <1>1, <1>2

LEMMA CertNext == Types /\ MetInv /\ CertInv /\ [Next]_vars => CertInv'
<1> SUFFICES ASSUME Types, MetInv, CertInv, [Next]_vars PROVE CertInv'
  OBVIOUS
<1>1. ASSUME NEW h \in Handlers, Handle(h) PROVE CertInv'
  <2>1. CASE Refuse(h) /\ UNCHANGED storeVars
    BY <1>1, <2>1, CertRefuse, HandlerKeeps
  <2>2. CASE Write(h)
    <3>1. /\ \A x \in Handlers : x # h => at'[x] = at[x]
          /\ Lacked' = Lacked /\ object' = object /\ met' = met /\ mem' = mem
      BY <1>1, <2>2, HandlerKeeps DEF Lacked, object, Write, WriteFile
    <3>2. NoRemovals => Covered(file', file'.sites, Lacked)
      BY <2>2, WriteMakes DEF CertInv, CertKnown
    <3>3. CertKnown(at'[h], mem, Lacked) /\ at'[h].pc # "secrets"
      BY <2>2, WriteMakes DEF CertKnown
    <3> QED
      BY <3>1, <3>2, <3>3 DEF CertInv, NoRemovals
  <2>3. CASE WriteFails(h) \/ Answer(h)
    BY <1>1, <2>3, CertRefuse, HandlerKeeps DEF WriteFails, Answer
  <2> QED
    BY <1>1, <2>1, <2>2, <2>3, CertSteps, CertStore
    DEF Handle, Get, CheckName, NamesChecked, CheckCertificate, CheckUnused,
        CheckParams, Generated, Find, MarshalSites, MarshalSecrets
<1>2. ASSUME NEW h \in Handlers, NEW r \in scenario.requests, Begin(h, r)
      PROVE  CertInv'
  <2>1. CertKnown(at'[h], mem, Lacked) /\ at'[h].pc # "secrets"
    BY <1>2, BeginMakes DEF CertKnown, FirstPlace, Patches
  <2>2. Lacked \subseteq Lacked'
    BY <1>2 DEF Begin, Lacked
  <2> QED
    BY <1>2, <2>1, <2>2, BeginMakes, CertTest
<1>3. CASE Sync \/ ParamsAge
  BY <1>3 DEF Sync, ParamsAge, CertInv, NoRemovals, storeVars, object, Lacked
<1>4. CASE Crash
  <2>1. /\ \A h \in Handlers : at'[h] = Idle
        /\ mem' = file /\ file' = file /\ met' = met /\ Lacked' = Lacked
    BY <1>4 DEF Crash, ReadState, Lacked
  <2>2. CertKnown(Idle, mem', Lacked) /\ Idle.pc # "secrets"
    BY DEF CertKnown, Idle, NoRequest
  <2> QED
    BY <2>1, <2>2 DEF CertInv, NoRemovals
<1>5. CASE UNCHANGED vars
  BY <1>5 DEF vars, storeVars, routeVars, CertInv, NoRemovals, object, Lacked
<1> QED
  BY <1>1, <1>2, <1>3, <1>4, <1>5 DEF Next

LEMMA CertInit == Init => MetInv /\ CertInv
<1> SUFFICES ASSUME Init PROVE MetInv /\ CertInv
  OBVIOUS
<1>1. scenario.state \in State /\ given = {scenario.state}
  BY RoutesAssumption DEF Init
<1>2. mem = scenario.state /\ file = scenario.state /\ \A h \in Handlers : at[h] = Idle
  BY DEF Init
<1>3. Idle.pc = "idle"
  BY DEF Idle
<1>4. Bare(scenario.state) \subseteq Lacked
  BY <1>1 DEF Lacked
<1> QED
  BY <1>1, <1>2, <1>3, <1>4, StateFacts DEF MetInv, Busy, CertInv, CertKnown

(* For any requests and states from outside, any number of requests at once*)
(* and any faults: as long as a removal of a certificate or a replacement  *)
(* of the state is handled alone, a site without its certificate, in memory*)
(* or in the file, came so from outside.                                   *)
THEOREM CertificatesExistAlways == Spec => []CertificatesExist
<1>1. Types /\ CertInv => CertificatesExist
  BY StateFacts DEF CertInv, NoRemovals, CertificatesExist, Types, TypeOK, StoreTypeOK,
     Lacked
<1> QED
  BY <1>1, TypesInit, TypesNext, MetNext, CertInit, CertNext, PTL DEF Spec

-----------------------------------------------------------------------------
(* Names *)

(* What is known of the names depends on the sites only.                   *)
LEMMA NamesOfSites ==
  ASSUME NEW a, NEW s, NEW t, s.sites = t.sites, NameKnown(a, s)
  PROVE  NameKnown(a, t)
BY DEF NameKnown

LEMMA NameTest ==
  ASSUME Types, NameInv, NEW h \in Handlers, UNCHANGED storeVars,
         met \subseteq met', given \subseteq given',
         \A x \in Handlers : x # h => at'[x] = at[x],
         SitesInTurn =>
           /\ NameKnown(at'[h], mem)
           /\ at'[h].pc = "store" /\ at'[h].req.kind \in SiteKinds
              => at'[h].object = object
  PROVE  NameInv'
<1>1. SitesInTurn' => SitesInTurn
  BY DEF SitesInTurn, Met, NamesGiven
<1>2. ASSUME SitesInTurn, NEW x \in Handlers
      PROVE  /\ NameKnown(at'[x], mem)
             /\ at'[x].pc = "store" /\ at'[x].req.kind \in SiteKinds
                => at'[x].object = object
  BY <1>2 DEF NameInv
<1>3. mem' = mem /\ file' = file /\ object' = object
  BY DEF storeVars, object
<1> QED
  BY <1>1, <1>2, <1>3 DEF NameInv

LEMMA NameRefuse ==
  ASSUME Types, NameInv, NEW h \in Handlers, Refuse(h),
         UNCHANGED <<storeVars, met, given>>
  PROVE  NameInv'
<1>1. NameKnown(at'[h], mem) /\ at'[h].pc # "store"
  BY RefuseMakes DEF NameKnown, Patches
<1>2. \A x \in Handlers : x # h => at'[x] = at[x]
  BY DEF Refuse, Types, TypeOK
<1> QED
  BY <1>1, <1>2, NameTest

LEMMA NameSteps ==
  ASSUME Types, NameInv, NEW h \in Handlers, Handle(h), ~Refuse(h),
         \/ Get(h) \/ NamesChecked(h) \/ CheckCertificate(h) \/ CheckUnused(h)
         \/ CheckParams(h) \/ Generated(h)
         \/ \E n \in Names : CheckName(h, n)
         \/ Find(h) \/ MarshalSites(h) \/ MarshalSecrets(h)
  PROVE  NameInv'
<1> DEFINE a == at[h]
           b == at'[h]
           Goal == /\ NameKnown(b, mem)
                   /\ b.pc = "store" /\ b.req.kind \in SiteKinds => b.object = object
<1> USE HandlerTypes, HandlerKeeps
<1>1. SUFFICES ASSUME SitesInTurn PROVE Goal
  <2>1. UNCHANGED storeVars
    BY DEF Get, NamesChecked, CheckCertificate, CheckUnused, CheckParams, Generated,
           CheckName, Find, MarshalSites, MarshalSecrets
  <2> QED
    BY <2>1, NameTest
<1>2. NameKnown(a, mem) /\ Distinct(mem.sites) /\ Placed(a)
  BY <1>1 DEF NameInv
<1>3. CASE Get(h)
  BY <1>3, GetMakes DEF NameKnown, Patches
<1>4. CASE NamesChecked(h)
  <2>1. /\ Goes(h, IF a.req.kind = "create" /\ a.site.tls # SelfSigned
                   THEN "cert" ELSE "find")
        /\ a.pc = "names" /\ a.todo = {}
    BY <1>4 DEF NamesChecked
  <2>2. a.req.kind = "create" \/ a.req.kind = "aliases"
    BY <1>2, <2>1 DEF Placed
  <2>3. /\ b.pc \in {"cert", "find"} /\ b.req = a.req /\ b.site = a.site
        /\ b.pc = "cert" => a.req.kind = "create"
    BY <2>1, GoesMakes
  <2>4. NameKnown(b, mem)
    <3>1. CASE a.req.kind = "create"
      BY <1>2, <2>1, <2>3, <3>1 DEF NameKnown, Patches
    <3>2. CASE a.req.kind = "aliases"
      BY <1>2, <2>1, <2>3, <3>2 DEF NameKnown, Patches
    <3> QED
      BY <2>2, <3>1, <3>2
  <2> QED
    BY <2>3, <2>4
<1>5. CASE CheckCertificate(h)
  <2>1. /\ a.pc = "cert" /\ a.req.kind \in {"create", "tls", "remove"}
        /\ \/ a.req.kind = "remove" /\ Goes(h, "used")
           \/ a.req.kind # "remove" /\ Goes(h, "find")
    BY <1>2, <1>5 DEF CheckCertificate, Placed
  <2>2. b.pc \in {"used", "find"} /\ b.req = a.req /\ b.site = a.site
    BY <2>1, GoesMakes
  <2> QED
    BY <1>2, <2>1, <2>2 DEF NameKnown, Patches
<1>6. CASE CheckUnused(h) \/ CheckParams(h) \/ Generated(h)
  <2>1. a.req.kind \in {"remove", "generate"}
    BY <1>2, <1>6 DEF CheckUnused, CheckParams, Generated, Placed
  <2>2. b.pc \in {"generate", "store"} /\ b.req = a.req
    <3>1. CASE CheckParams(h)
      BY <3>1 DEF CheckParams, Types, TypeOK, Handler
    <3>2. CASE CheckUnused(h) \/ Generated(h)
      BY <3>2, GoesMakes DEF CheckUnused, Generated
    <3> QED
      BY <1>6, <3>1, <3>2
  <2> QED
    BY <2>1, <2>2 DEF NameKnown, Patches, SiteKinds
<1>7. ASSUME NEW n \in Names, CheckName(h, n) PROVE Goal
  <2> DEFINE i == GetSite(mem.sites, n)
  <2>1. /\ a.pc = "names" /\ b.pc = "names" /\ b.req = a.req /\ b.site = a.site
        /\ b.todo = a.todo \ {n}
        /\ i # 0 => a.req.kind = "aliases" /\ mem.sites[i].domain = a.site.domain
    BY <1>7, CheckNameMakes
  <2>2. /\ i \in 0..Len(mem.sites)
        /\ i = 0 => Free(n, mem.sites)
        /\ i # 0 => n \in NamesOf(mem.sites[i])
    BY GetSiteFinds DEF Free
  <2>3. a.req.kind = "aliases" => Own(n, a.site, mem.sites)
    <3>1. CASE i = 0
      BY <2>2, <3>1 DEF Own, Free
    <3>2. CASE i # 0
      <4>1. i \in 1..Len(mem.sites) /\ n \in NamesOf(mem.sites[i])
        BY <2>2, <3>2
      <4>2. mem.sites[i].domain = a.site.domain
        BY <2>1, <3>2
      <4> HIDE DEF i
      <4>3. \A j \in 1..Len(mem.sites) : n \in NamesOf(mem.sites[j]) => j = i
        BY <1>2, <4>1 DEF Distinct
      <4> QED
        BY <4>2, <4>3 DEF Own
    <3> QED
      BY <3>1, <3>2
  <2> HIDE DEF i
  <2>4. NameKnown(b, mem)
    BY <1>2, <2>1, <2>2, <2>3 DEF NameKnown, Patches
  <2> QED
    BY <2>1, <2>4
<1>8. CASE Find(h)
  <2>1. /\ a.req \in Request /\ a.req.kind \in SiteKinds /\ a.pc = "find"
        /\ b.pc = "store" /\ b.req = a.req /\ b.site = a.site
        /\ b.object = object /\ b.read = mem.sites /\ b.index # 0
    BY <1>8, FindMakes DEF Find
  <2>2. a.req.kind \in Patches =>
          b.index \in 1..Len(mem.sites) /\ mem.sites[b.index].domain = b.site.domain
    BY <1>8, <2>1, FindMakes, SameDomainFinds
  <2>3. a.req.kind = "delete" =>
          b.index \in 1..Len(mem.sites) /\ a.req.name \in NamesOf(mem.sites[b.index])
    BY <1>8, <2>1, FindMakes, GetSiteFinds
  <2> QED
    BY <1>2, <2>1, <2>2, <2>3 DEF NameKnown, Patches
<1>9. CASE MarshalSites(h)
  BY <1>2, <1>9, MarshalMakes DEF NameKnown
<1>10. CASE MarshalSecrets(h)
  BY <1>2, <1>10, MarshalMakes DEF NameKnown
<1> QED
  BY <1>3, <1>4, <1>5, <1>6, <1>7, <1>8, <1>9, <1>10

(* The index of an update is that of the site the handler has a copy of.   *)
LEMMA UpdatedSite ==
  ASSUME Types, NEW h \in Handlers, at[h].pc = "store",
         at[h].req.kind \in Patches, NameKnown(at[h], mem), Distinct(mem.sites)
  PROVE  LET a == at[h] IN
         /\ a.index \in 1..Len(mem.sites) /\ mem.sites[a.index] \in Site
         /\ a.site = Patched(mem.sites[a.index], a.req)
         /\ a.req.name \in NamesOf(mem.sites[a.index])
         /\ a.site.domain = mem.sites[a.index].domain
<1> DEFINE a == at[h]
<1>1. PICK i \in 1..Len(mem.sites) :
        a.req.name \in NamesOf(mem.sites[i]) /\ a.site = Patched(mem.sites[i], a.req)
  BY DEF NameKnown
<1>2. mem.sites \in Seq(Site) /\ mem.sites[i] \in Site /\ a.req \in Request
  BY HandlerTypes, ListedSite
<1>3. a.site.domain = mem.sites[i].domain
  BY <1>1, <1>2, PatchedType
<1>4. a.index \in 1..Len(mem.sites) /\ mem.sites[a.index].domain = a.site.domain
  BY DEF NameKnown
<1>5. i = a.index
  BY <1>3, <1>4 DEF Distinct, NamesOf
<1> QED
  BY <1>1, <1>2, <1>4, <1>5

(* A site that replaces itself, with names that are its own or free.       *)
LEMMA DistinctUpdate ==
  ASSUME NEW sites \in Seq(Site), Distinct(sites), NEW i \in 1..Len(sites),
         NEW site, site.domain = sites[i].domain,
         \A n \in site.aliases \ sites[i].aliases : Own(n, site, sites)
  PROVE  Distinct([sites EXCEPT ![i] = site])
<1> DEFINE new == [sites EXCEPT ![i] = site]
<1>1. Len(new) = Len(sites)
  OBVIOUS
<1>2. \A k \in 1..Len(sites) : new[k] = IF k = i THEN site ELSE sites[k]
  OBVIOUS
<1>3. ASSUME NEW j \in 1..Len(sites), j # i, NEW n,
             n \in NamesOf(site), n \in NamesOf(sites[j])
      PROVE  FALSE
  <2>1. CASE n \in NamesOf(sites[i])
    BY <1>3, <2>1 DEF Distinct
  <2>2. CASE n \notin NamesOf(sites[i])
    <3>1. sites[j].domain = sites[i].domain
      BY <1>3, <2>2 DEF Own, NamesOf
    <3> QED
      BY <1>3, <3>1 DEF Distinct, NamesOf
  <2> QED
    BY <2>1, <2>2
<1> HIDE DEF new
<1>4. ASSUME NEW j \in 1..Len(sites), NEW k \in 1..Len(sites), j # k
      PROVE  NamesOf(new[j]) \cap NamesOf(new[k]) = {}
  <2>1. CASE j = i
    BY <1>2, <1>3, <1>4, <2>1
  <2>2. CASE k = i
    BY <1>2, <1>3, <1>4, <2>2
  <2>3. CASE j # i /\ k # i
    BY <1>2, <1>4, <2>3 DEF Distinct
  <2> QED
    BY <2>1, <2>2, <2>3
<1> QED
  BY <1>1, <1>4 DEF Distinct, new

(* A site whose names are free, at the end.                                *)
LEMMA DistinctAppend ==
  ASSUME NEW sites \in Seq(Site), Distinct(sites), NEW site,
         \A n \in NamesOf(site) : Free(n, sites)
  PROVE  Distinct(Append(sites, site))
<1> DEFINE new == Append(sites, site)
           n   == Len(sites)
<1>1. n \in Nat /\ Len(new) = n + 1
  OBVIOUS
<1>2. new[n + 1] = site /\ \A k \in 1..n : new[k] = sites[k]
  OBVIOUS
<1>3. \A k \in 1..n : NamesOf(site) \cap NamesOf(sites[k]) = {}
  BY DEF Free
<1>4. \A j, k \in 1..n : j # k => NamesOf(sites[j]) \cap NamesOf(sites[k]) = {}
  BY DEF Distinct
<1> HIDE DEF new, n
<1>5. ASSUME NEW j \in 1..n + 1, NEW k \in 1..n + 1, j # k
      PROVE  NamesOf(new[j]) \cap NamesOf(new[k]) = {}
  <2>1. CASE j = n + 1
    <3>1. k \in 1..n
      BY <1>1, <1>5, <2>1
    <3> QED
      BY <1>2, <1>3, <2>1, <3>1
  <2>2. CASE k = n + 1
    <3>1. j \in 1..n
      BY <1>1, <1>5, <2>2
    <3> QED
      BY <1>2, <1>3, <2>2, <3>1
  <2>3. CASE j # n + 1 /\ k # n + 1
    <3>1. j \in 1..n /\ k \in 1..n
      BY <1>1, <2>3
    <3> QED
      BY <1>2, <1>4, <1>5, <3>1
  <2> QED
    BY <2>1, <2>2, <2>3
<1> QED
  BY <1>1, <1>5 DEF Distinct, new

LEMMA DistinctWithout ==
  ASSUME NEW sites \in Seq(Site), Distinct(sites), NEW i \in 1..Len(sites)
  PROVE  Distinct(Without(sites, i))
<1> DEFINE new == Without(sites, i)
           n   == Len(sites)
<1>1. n \in Nat /\ i \in 1..n
  OBVIOUS
<1>2. /\ Len(new) = n - 1
      /\ \A k \in 1 .. n - 1 : new[k] = IF k = i THEN sites[n] ELSE sites[k]
  BY WithoutSites
<1>3. \A j, k \in 1..n : j # k => NamesOf(sites[j]) \cap NamesOf(sites[k]) = {}
  BY DEF Distinct
<1> HIDE DEF new, n
<1>4. ASSUME NEW j \in 1 .. n - 1, NEW k \in 1 .. n - 1, j # k
      PROVE  NamesOf(new[j]) \cap NamesOf(new[k]) = {}
  <2>1. /\ j \in 1..n /\ k \in 1..n /\ n \in 1..n /\ j # n /\ k # n
    BY <1>1
  <2>2. CASE j = i
    BY <1>2, <1>3, <1>4, <2>1, <2>2
  <2>3. CASE k = i
    BY <1>2, <1>3, <1>4, <2>1, <2>3
  <2>4. CASE j # i /\ k # i
    BY <1>2, <1>3, <1>4, <2>1, <2>4
  <2> QED
    BY <2>2, <2>3, <2>4
<1> QED
  BY <1>2, <1>4 DEF Distinct, new

LEMMA NameStore ==
  ASSUME Types, MetInv, NameInv, NEW h \in Handlers, Handle(h), Store(h)
  PROVE  NameInv'
<1> DEFINE a == at[h]
           r == at[h].req
<1> USE HandlerTypes, HandlerKeeps
<1>1. CASE Panics(h)
  BY <1>1, NameRefuse DEF Store, history
<1>2. CASE ~Panics(h)
  <2>1. SUFFICES ASSUME SitesInTurn
                 PROVE  /\ Distinct(mem'.sites) /\ Distinct(file'.sites)
                        /\ \A x \in Handlers :
                             /\ NameKnown(at'[x], mem')
                             /\ at'[x].pc = "store" /\ at'[x].req.kind \in SiteKinds
                                => at'[x].object = object'
    BY DEF NameInv, SitesInTurn, Met, NamesGiven, object
  <2>2. /\ Distinct(mem.sites) /\ Distinct(file.sites) /\ file' = file
        /\ NameKnown(a, mem) /\ Placed(a) /\ a.pc = "store"
        /\ r \in Request /\ r.kind \in Kinds /\ mem \in State
        /\ a \in Handler /\ mem.sites \in Seq(Site)
        /\ r.kind \in SiteKinds => a.object = object
    BY <1>2, <2>1, StoreMakes, ChangeTypes DEF NameInv
  <2>3. at'[h].pc = "sites" /\ NameKnown(at'[h], mem')
    BY <1>2, StoreMakes DEF NameKnown
  <2>4. CASE r.kind \in SiteKinds \cup {"replace"}
    <3>1. ASSUME NEW x \in Handlers, x # h
          PROVE  /\ NameKnown(at'[x], mem')
                 /\ ~(at'[x].pc = "store" /\ at'[x].req.kind \in SiteKinds)
      <4>1. at'[x] = at[x] /\ NameKnown(at[x], mem)
        BY <2>1, <3>1 DEF NameInv
      <4>2. CASE at[x].pc = "idle"
        BY <4>1, <4>2 DEF NameKnown
      <4>3. CASE at[x].pc # "idle"
        <5>1. {r.kind, at[x].req.kind} \in met
          BY <2>2, <3>1, <4>3 DEF MetInv, Busy
        <5>2. at[x].req.kind \notin SiteKinds
          BY <2>1, <2>4, <5>1 DEF SitesInTurn, Met
        <5> QED
          BY <4>1, <5>2 DEF NameKnown, SiteKinds, Patches
      <4> QED
        BY <4>2, <4>3
    <3>2. Distinct(mem'.sites)
      <4>1. CASE r.kind = "create"
        <5> DEFINE sites == mem.sites
        <5>1. mem'.sites = Append(sites, a.site) /\ \A n \in NamesOf(a.site) : Free(n, sites)
          BY <1>2, <2>2, <4>1, StoreMakes, ChangeMakes DEF NameKnown, SiteKinds
        <5>2. sites \in Seq(Site) /\ Distinct(sites)
          BY <2>2
        <5> HIDE DEF sites
        <5>3. Distinct(Append(sites, a.site))
          BY <5>1, <5>2, DistinctAppend
        <5> QED
          BY <5>1, <5>3
      <4>2. CASE r.kind \in Patches
        <5>1. /\ a.index \in 1..Len(mem.sites) /\ mem.sites[a.index] \in Site
              /\ a.site = Patched(mem.sites[a.index], r)
              /\ a.site.domain = mem.sites[a.index].domain
          BY <2>2, <4>2, UpdatedSite
        <5>2. mem'.sites = [mem.sites EXCEPT ![a.index] = a.site]
          BY <1>2, <2>2, <4>2, StoreMakes, ChangeMakes DEF SiteKinds
        <5>3. \A n \in a.site.aliases \ mem.sites[a.index].aliases :
                Own(n, a.site, mem.sites)
          <6>1. a.site.aliases = IF r.kind = "aliases" THEN r.aliases
                                 ELSE mem.sites[a.index].aliases
            BY <2>2, <4>2, <5>1, PatchedType
          <6>2. r.kind = "aliases" => \A n \in r.aliases : Own(n, a.site, mem.sites)
            BY <2>2 DEF NameKnown
          <6> QED
            BY <6>1, <6>2
        <5> QED
          BY <2>2, <5>1, <5>2, <5>3, DistinctUpdate
      <4>3. CASE r.kind = "delete"
        <5> DEFINE sites == mem.sites
        <5>1. mem'.sites = Without(sites, a.index) /\ a.index \in 1..Len(sites)
          BY <1>2, <2>2, <4>3, StoreMakes, ChangeMakes DEF SiteKinds
        <5>2. sites \in Seq(Site) /\ Distinct(sites)
          BY <2>2
        <5> HIDE DEF sites
        <5> QED
          BY <5>1, <5>2, DistinctWithout
      <4>4. CASE r.kind = "replace"
        <5>1. mem' = r.state /\ r.state \in given
          BY <1>2, <2>2, <4>4, StoreMakes, ChangeMakes DEF MetInv, Busy
        <5>2. Unique(r.state)
          BY <2>1, <5>1 DEF SitesInTurn, NamesGiven
        <5>3. r.state \in State
          BY <2>2, <4>4, RequestFields
        <5>4. Distinct(r.state.sites)
          BY <5>2, <5>3, StateFacts
        <5> QED
          BY <5>1, <5>4
      <4> QED
        BY <2>4, <4>1, <4>2, <4>3, <4>4 DEF SiteKinds
    <3> QED
      BY <2>2, <2>3, <3>1, <3>2
  <2>5. CASE r.kind \notin SiteKinds \cup {"replace"}
    <3>1. mem'.sites = mem.sites /\ object' = object
      BY <1>2, <2>2, <2>5, StoreMakes, ChangeMakes DEF Kinds
    <3>2. ASSUME NEW x \in Handlers, x # h
          PROVE  /\ NameKnown(at'[x], mem')
                 /\ at'[x].pc = "store" /\ at'[x].req.kind \in SiteKinds
                    => at'[x].object = object'
      <4>1. at'[x] = at[x] /\ NameKnown(at[x], mem)
        BY <2>1, <3>2 DEF NameInv
      <4>2. NameKnown(at[x], mem')
        BY <3>1, <4>1, NamesOfSites
      <4> QED
        BY <2>1, <3>1, <4>1, <4>2 DEF NameInv
    <3> QED
      BY <2>2, <2>3, <3>1, <3>2
  <2> QED
    BY <2>4, <2>5
<1> QED
  BY <1>1, <1>2

LEMMA NameNext == Types /\ MetInv /\ NameInv /\ [Next]_vars => NameInv'
<1> SUFFICES ASSUME Types, MetInv, NameInv, [Next]_vars PROVE NameInv'
  OBVIOUS
<1>1. ASSUME NEW h \in Handlers, Handle(h) PROVE NameInv'
  <2>1. CASE Refuse(h) /\ UNCHANGED storeVars
    BY <1>1, <2>1, NameRefuse, HandlerKeeps
  <2>2. CASE Write(h)
    <3>1. \A x \in Handlers : x # h => at'[x] = at[x]
      BY <1>1, HandlerKeeps
    <3>2. SitesInTurn => Distinct(file'.sites)
      BY <2>2, WriteMakes DEF NameInv, NameKnown
    <3>3. NameKnown(at'[h], mem) \/ ~SitesInTurn
      BY <2>2, WriteMakes DEF NameKnown, NameInv
    <3> QED
      BY <1>1, <2>2, <3>1, <3>2, <3>3, WriteMakes, HandlerKeeps
      DEF NameInv, SitesInTurn, Met, NamesGiven, object
  <2>3. CASE WriteFails(h) \/ Answer(h)
    BY <1>1, <2>3, NameRefuse, HandlerKeeps DEF WriteFails, Answer
  <2> QED
    BY <1>1, <2>1, <2>2, <2>3, NameSteps, NameStore
    DEF Handle, Get, CheckName, NamesChecked, CheckCertificate, CheckUnused,
        CheckParams, Generated, Find, MarshalSites, MarshalSecrets
<1>2. ASSUME NEW h \in Handlers, NEW r \in scenario.requests, Begin(h, r)
      PROVE  NameInv'
  <2>1. at'[h].pc # "store" \/ at'[h].req.kind \notin SiteKinds
    BY <1>2, BeginMakes DEF FirstPlace, SiteKinds, Patches
  <2>2. NameKnown(at'[h], mem)
    BY <1>2, BeginMakes DEF NameKnown, FirstPlace, Patches
  <2> QED
    BY <1>2, <2>1, <2>2, BeginMakes, NameTest DEF Begin
<1>3. CASE Sync \/ ParamsAge
  BY <1>3 DEF Sync, ParamsAge, NameInv, SitesInTurn, Met, NamesGiven, storeVars, object
<1>4. CASE Crash
  <2>1. \A h \in Handlers : at'[h] = Idle
    BY <1>4 DEF Crash
  <2>2. NameKnown(Idle, mem') /\ Idle.pc # "store"
    BY DEF NameKnown, Idle, NoRequest, Patches
  <2> QED
    BY <1>4, <2>1, <2>2 DEF Crash, ReadState, NameInv, SitesInTurn, Met, NamesGiven, object
<1>5. CASE UNCHANGED vars
  BY <1>5 DEF vars, storeVars, routeVars, NameInv, SitesInTurn, Met, NamesGiven, object
<1> QED
  BY <1>1, <1>2, <1>3, <1>4, <1>5 DEF Next

LEMMA NameInit == Init => NameInv
<1> SUFFICES ASSUME Init PROVE NameInv
  OBVIOUS
<1>1. scenario.state \in State /\ given = {scenario.state}
  BY RoutesAssumption DEF Init
<1>2. mem = scenario.state /\ file = scenario.state /\ \A h \in Handlers : at[h] = Idle
  BY DEF Init
<1>3. NameKnown(Idle, mem) /\ Idle.pc # "store"
  BY DEF NameKnown, Idle, NoRequest, Patches
<1> QED
  BY <1>1, <1>2, <1>3, StateFacts DEF NameInv, SitesInTurn, NamesGiven

(* For any requests, handlers and faults: as long as requests about sites  *)
(* are handled one at a time, whatever else is handled meanwhile, and no   *)
(* state comes from outside that has a name twice, no two sites have one   *)
(* in common.                                                              *)
THEOREM NamesAreUniqueAlways == Spec => []NamesAreUnique
<1>1. Types /\ NameInv => NamesAreUnique
  BY StateFacts DEF NameInv, SitesInTurn, NamesGiven, NamesAreUnique, Types, TypeOK, StoreTypeOK
<1> QED
  BY <1>1, TypesInit, TypesNext, MetNext, CertInit, NameInit, NameNext, PTL DEF Spec

-----------------------------------------------------------------------------
(* Syncs *)

(* What a sync deploys depends on the sites and on the certificates that   *)
(* they use.                                                               *)
LEMMA DeployedSites ==
  ASSUME NEW s \in State, NEW t \in State, t.sites = s.sites,
         \A c \in Certs : t.certs[c] = s.certs[c] \/ Unused(c, s.sites)
  PROVE  Deployed(t).sites = Deployed(s).sites
<1> DEFINE Cert(u, i) == IF u.sites[i].tls \in Certs THEN u.certs[u.sites[i].tls] ELSE 0
<1>1. DOMAIN s.sites = 1..Len(s.sites)
  BY DEF State
<1>2. \A i \in DOMAIN s.sites : Cert(t, i) = Cert(s, i)
  BY <1>1 DEF Unused
<1>3. /\ Deployed(s).sites = {[site |-> s.sites[i], cert |-> Cert(s, i)] :
                              i \in DOMAIN s.sites}
      /\ Deployed(t).sites = {[site |-> s.sites[i], cert |-> Cert(t, i)] :
                              i \in DOMAIN s.sites}
  BY DEF Deployed
<1> HIDE DEF Cert
<1> QED
  BY <1>2, <1>3

(* A handler that has changed nothing, or goes on writing what it has.     *)
LEMMA AppliedTest ==
  ASSUME Types, AppliedInv, NEW h \in Handlers,
         UNCHANGED <<mem, queued, applied, mute, erred>>,
         met \subseteq met', \A x \in Handlers : x # h => at'[x] = at[x],
         at[h].pc \in Written => at'[h].pc \in Written /\ at'[h].req = at[h].req,
         NotRemoved => (at'[h].pc = "store" /\ at'[h].req.kind = "remove"
                        => Unused(at'[h].req.cert, mem.sites))
  PROVE  AppliedInv'
<1>1. NotRemoved' => NotRemoved
  BY DEF NotRemoved
<1>2. ASSUME NEW silent, Pending(silent) PROVE \E x \in Handlers :
        at'[x].pc \in Written /\ at'[x].req.kind \notin silent
  BY <1>2 DEF Pending
<1>3. /\ Pending({"remove", "params"}) => Pending({"remove", "params"})'
      /\ Pending({"remove"}) => Pending({"remove"})'
  BY <1>2 DEF Pending
<1>4. ASSUME NotRemoved, NEW x \in Handlers,
             at'[x].pc = "store", at'[x].req.kind = "remove"
      PROVE  Unused(at'[x].req.cert, mem.sites)
  BY <1>4 DEF AppliedInv
<1>5. mem' = mem /\ Deployed(mem)' = Deployed(mem) /\ UNCHANGED <<queued, applied, mute, erred>>
  BY DEF Deployed
<1> QED
  BY <1>1, <1>3, <1>4, <1>5 DEF AppliedInv

LEMMA AppliedSteps ==
  ASSUME Types, AppliedInv, NEW h \in Handlers, Handle(h),
         \/ Get(h) \/ NamesChecked(h) \/ CheckCertificate(h) \/ CheckUnused(h)
         \/ CheckParams(h) \/ Generated(h)
         \/ \E n \in Names : CheckName(h, n)
         \/ Find(h) \/ MarshalSites(h) \/ MarshalSecrets(h) \/ Write(h)
  PROVE  AppliedInv'
<1> DEFINE a == at[h]
           b == at'[h]
<1> SUFFICES /\ a.pc \in Written => b.pc \in Written /\ b.req = a.req
             /\ NotRemoved => (b.pc = "store" /\ b.req.kind = "remove"
                               => Unused(b.req.cert, mem.sites))
  <2>1. UNCHANGED <<mem, queued, applied, mute, erred>>
    BY DEF Get, NamesChecked, CheckCertificate, CheckUnused, CheckParams, Generated,
           CheckName, Find, MarshalSites, MarshalSecrets, Write, WriteFile, history,
           storeVars
  <2> QED
    BY <2>1, HandlerKeeps, AppliedTest
<1>1. CASE Refuse(h) /\ a.pc \notin Written
  BY <1>1, RefuseMakes
<1>2. CASE MarshalSites(h) \/ MarshalSecrets(h)
  BY <1>2, MarshalMakes DEF Written
<1>3. CASE Write(h)
  BY <1>3, WriteMakes DEF Written
<1>4. CASE Find(h) /\ ~Refuse(h)
  <2>1. a.pc = "find" /\ b.req.kind # "remove"
    BY <1>4, FindMakes DEF Find, SiteKinds, Patches
  <2> QED
    BY <2>1 DEF Written
<1>5. CASE CheckUnused(h) /\ ~Refuse(h)
  <2>1. Goes(h, "store") /\ Unused(a.req.cert, mem.sites) /\ a.pc = "used"
    <3>1. DOMAIN mem.sites = 1..Len(mem.sites)
      BY HandlerTypes
    <3> QED
      BY <1>5, <3>1 DEF CheckUnused, Unused
  <2> QED
    BY <2>1, GoesMakes DEF Written
<1>6. CASE CheckParams(h) /\ ~Refuse(h)
  <2>1. a.pc = "check" /\ b.pc = "generate"
    BY <1>6 DEF CheckParams, Types, TypeOK, Handler
  <2> QED
    BY <2>1 DEF Written
<1>7. CASE Generated(h) /\ ~Refuse(h)
  <2>1. a.pc = "generate" /\ a.req.kind = "generate" /\ b.req = a.req
    BY <1>7, HandlerTypes, GoesMakes DEF Generated, Placed
  <2> QED
    BY <2>1 DEF Written
<1>8. CASE Get(h) /\ ~Refuse(h)
  <2>1. a.pc = "get" /\ b.req.kind # "remove"
    BY <1>8, GetMakes DEF Get, Patches
  <2> QED
    BY <2>1 DEF Written
<1>9. CASE NamesChecked(h) \/ (CheckCertificate(h) /\ ~Refuse(h))
  <2>1. a.pc \in {"names", "cert"} /\ b.pc # "store"
    BY <1>9, GoesMakes DEF NamesChecked, CheckCertificate
  <2> QED
    BY <2>1 DEF Written
<1>10. ASSUME NEW n \in Names, CheckName(h, n), ~Refuse(h)
       PROVE  a.pc \notin Written /\ b.pc # "store"
  BY <1>10, CheckNameMakes DEF Written
<1>11. a.pc \in Written => Write(h) \/ MarshalSites(h) \/ MarshalSecrets(h)
  BY DEF Written, Get, NamesChecked, CheckCertificate, CheckUnused, CheckParams,
         Generated, CheckName, Find
<1> QED
  BY <1>1, <1>2, <1>3, <1>4, <1>5, <1>6, <1>7, <1>8, <1>9, <1>10, <1>11

(* The change of a removal is nothing that a sync would read; what else    *)
(* changes the state is followed by one, and so is what it changed before. *)
LEMMA AppliedStore ==
  ASSUME Types, MetInv, AppliedInv, NEW h \in Handlers, Handle(h), Store(h)
  PROVE  AppliedInv'
<1> DEFINE a == at[h]
           r == at[h].req
<1>1. CASE Panics(h)
  <2>1. Refuse(h) /\ a.pc = "store" /\ UNCHANGED <<storeVars, history>>
    BY <1>1 DEF Store
  <2> QED
    BY <2>1, RefuseMakes, HandlerKeeps, AppliedTest DEF Written, storeVars, history
<1>2. CASE ~Panics(h)
  <2>1. UNCHANGED <<queued, applied, mute, erred, met>>
    BY DEF Store, history
  <2>2. SUFFICES ASSUME NotRemoved
                 PROVE  /\ \/ applied.sites = Deployed(mem').sites
                           \/ queued \/ erred \/ Pending({"remove", "params"})'
                        /\ \/ applied.dh = mem'.dh \/ mute
                           \/ queued \/ erred \/ Pending({"remove"})'
                        /\ \A x \in Handlers :
                             at'[x].pc = "store" /\ at'[x].req.kind = "remove"
                             => Unused(at'[x].req.cert, mem'.sites)
    <3>1. NotRemoved' => NotRemoved
      BY <2>1 DEF NotRemoved
    <3>2. Deployed(mem)' = Deployed(mem')
      BY DEF Deployed
    <3> QED
      BY <2>1, <3>1, <3>2 DEF AppliedInv
  <2>3. /\ a.pc = "store" /\ at'[h].pc = "sites" /\ at'[h].req = r
        /\ mem \in State /\ mem' \in State /\ r \in Request /\ r.kind \in Kinds
        /\ \A x \in Handlers : x # h => at'[x] = at[x]
    BY <1>2, StoreMakes, ChangeTypes, HandlerKeeps, HandlerTypes
  <2>4. /\ r.kind \notin {"remove", "params"} => Pending({"remove", "params"})'
        /\ r.kind # "remove" => Pending({"remove"})'
    BY <2>3 DEF Pending, Written
  <2>5. /\ Pending({"remove", "params"}) => Pending({"remove", "params"})'
        /\ Pending({"remove"}) => Pending({"remove"})'
    BY <2>3 DEF Pending, Written
  <2>6. /\ r.kind \in {"remove", "params"} => Deployed(mem').sites = Deployed(mem).sites
        /\ r.kind = "remove" => mem'.dh = mem.dh
    <3>1. CASE r.kind = "remove"
      <4>1. /\ mem'.sites = mem.sites /\ mem'.dh = mem.dh
            /\ mem'.certs = [mem.certs EXCEPT ![r.cert] = 0]
        BY <1>2, <2>3, <3>1, StoreMakes, ChangeMakes
      <4>2. Unused(r.cert, mem.sites)
        BY <2>2, <2>3, <3>1 DEF AppliedInv
      <4>3. \A c \in Certs : mem'.certs[c] = mem.certs[c] \/ Unused(c, mem.sites)
        BY <2>3, <4>1, <4>2 DEF State
      <4> QED
        BY <2>3, <3>1, <4>1, <4>3, DeployedSites
    <3>2. CASE r.kind = "params"
      <4>1. mem'.sites = mem.sites /\ mem'.certs = mem.certs
        BY <1>2, <2>3, <3>2, StoreMakes, ChangeMakes
      <4> QED
        BY <2>3, <3>2, <4>1, DeployedSites
    <3> QED
      BY <3>1, <3>2
  <2>7. ASSUME NEW x \in Handlers, at'[x].pc = "store", at'[x].req.kind = "remove"
        PROVE  FALSE
    <3>1. x # h /\ at[x].pc = "store" /\ at[x].req.kind = "remove"
      BY <2>3, <2>7
    <3>2. {r.kind, at[x].req.kind} \in met
      BY <2>3, <3>1 DEF MetInv, Busy
    <3> QED
      BY <2>2, <3>1, <3>2 DEF NotRemoved
  <2> QED
    BY <2>2, <2>4, <2>5, <2>6, <2>7 DEF AppliedInv
<1> QED
  BY <1>1, <1>2

LEMMA AppliedNext == Types /\ MetInv /\ AppliedInv /\ [Next]_vars => AppliedInv'
<1> SUFFICES ASSUME Types, MetInv, AppliedInv, [Next]_vars PROVE AppliedInv'
  OBVIOUS
<1>1. ASSUME NEW h \in Handlers, Handle(h) PROVE AppliedInv'
  <2>1. CASE WriteFails(h)
    <3>1. /\ at'[h].pc = "idle" /\ erred' /\ UNCHANGED <<mem, met>>
          /\ \A x \in Handlers : x # h => at'[x] = at[x]
      BY <1>1, <2>1, RefuseMakes, HandlerKeeps DEF WriteFails, storeVars
    <3> QED
      BY <3>1 DEF AppliedInv, NotRemoved
  <2>2. CASE Answer(h)
    <3>1. /\ at'[h].pc = "idle" /\ UNCHANGED <<mem, met, applied, erred>>
          /\ \A x \in Handlers : x # h => at'[x] = at[x]
          /\ queued' = (queued \/ at[h].req.kind \notin {"remove", "params"})
          /\ mute' = (mute \/ at[h].req.kind = "params")
      BY <1>1, <2>2, RefuseMakes, HandlerKeeps DEF Answer, storeVars
    <3>2. /\ \/ at[h].req.kind \notin {"remove", "params"}
             \/ Pending({"remove", "params"}) => Pending({"remove", "params"})'
          /\ \/ at[h].req.kind # "remove"
             \/ Pending({"remove"}) => Pending({"remove"})'
      BY <3>1 DEF Pending
    <3>3. Deployed(mem)' = Deployed(mem)
      BY <3>1 DEF Deployed
    <3>4. ASSUME NotRemoved
          PROVE  /\ \/ applied.sites = Deployed(mem).sites
                    \/ queued' \/ erred \/ Pending({"remove", "params"})'
                 /\ \/ applied.dh = mem.dh \/ mute'
                    \/ queued' \/ erred \/ Pending({"remove"})'
      BY <3>1, <3>2, <3>4 DEF AppliedInv
    <3>5. ASSUME NotRemoved, NEW x \in Handlers,
                 at'[x].pc = "store", at'[x].req.kind = "remove"
          PROVE  Unused(at'[x].req.cert, mem.sites)
      BY <3>1, <3>5 DEF AppliedInv
    <3>6. NotRemoved' => NotRemoved
      BY <3>1 DEF NotRemoved
    <3> QED
      BY <3>1, <3>3, <3>4, <3>5, <3>6 DEF AppliedInv
  <2> QED
    BY <1>1, <2>1, <2>2, AppliedSteps, AppliedStore DEF Handle
<1>2. ASSUME NEW h \in Handlers, NEW r \in scenario.requests, Begin(h, r)
      PROVE  AppliedInv'
  <2>1. at[h].pc \notin Written
    BY <1>2 DEF Begin, Written
  <2>2. ~(at'[h].pc = "store" /\ at'[h].req.kind = "remove")
    BY <1>2, BeginMakes DEF FirstPlace, Patches
  <2>3. /\ met \subseteq met' /\ \A x \in Handlers : x # h => at'[x] = at[x]
        /\ UNCHANGED <<mem, queued, applied, mute, erred>>
    BY <1>2, BeginMakes DEF Begin, storeVars
  <2> QED
    BY <2>1, <2>2, <2>3, AppliedTest
<1>3. CASE Sync
  BY <1>3 DEF Sync, AppliedInv, NotRemoved, storeVars, Deployed
<1>4. CASE ParamsAge
  BY <1>4 DEF ParamsAge, AppliedInv, NotRemoved, storeVars, Deployed, Pending
<1>5. CASE Crash
  <2>1. \A h \in Handlers : at'[h].pc = "idle"
    BY <1>5 DEF Crash, Idle
  <2>2. mem' = file /\ applied' = Deployed(file)
    BY <1>5 DEF Crash, ReadState
  <2> QED
    BY <2>1, <2>2 DEF AppliedInv, Deployed
<1>6. CASE UNCHANGED vars
  BY <1>6 DEF vars, storeVars, routeVars, AppliedInv, NotRemoved, Deployed, Pending
<1> QED
  BY <1>1, <1>2, <1>3, <1>4, <1>5, <1>6 DEF Next

(* For any requests, handlers and faults: when no request is handled and   *)
(* no sync is due, the last sync has read the sites and certificates that  *)
(* the state has, and the parameters unless a request has set them.        *)
THEOREM ChangesAreAppliedAlways == Spec => []ChangesAreApplied
<1>1. Init => AppliedInv
  BY DEF Init, AppliedInv, Idle, Deployed
<1>2. AppliedInv => ChangesAreApplied
  BY DEF AppliedInv, ChangesAreApplied, NotRemoved, Pending, Busy, Written
<1> QED
  BY <1>1, <1>2, TypesInit, TypesNext, MetNext, CertInit, AppliedNext, PTL DEF Spec

-----------------------------------------------------------------------------
(* Answers *)

(* The set of the sites of a sequence, changed at one place.               *)
LEMMA AppendRange ==
  ASSUME NEW sites \in Seq(Site), NEW s
  PROVE  LET new == Append(sites, s) IN
         {new[k] : k \in DOMAIN new} = {sites[k] : k \in DOMAIN sites} \cup {s}
<1> DEFINE new == Append(sites, s)
           n   == Len(sites)
<1>1. n \in Nat /\ DOMAIN sites = 1..n /\ DOMAIN new = 1..n + 1
  OBVIOUS
<1>2. new[n + 1] = s /\ \A k \in 1..n : new[k] = sites[k]
  OBVIOUS
<1> HIDE DEF new, n
<1>3. \A k \in 1..n + 1 : k \in 1..n \/ k = n + 1
  BY <1>1
<1>4. \A k \in 1..n : k \in 1..n + 1
  BY <1>1
<1>5. n + 1 \in 1..n + 1
  BY <1>1
<1> QED
  BY <1>1, <1>2, <1>3, <1>4, <1>5 DEF new

LEMMA WithoutRange ==
  ASSUME NEW sites \in Seq(Site), NEW i \in 1..Len(sites)
  PROVE  LET new == Without(sites, i) IN
         {new[k] : k \in DOMAIN new} = {sites[k] : k \in 1..Len(sites) \ {i}}
<1> DEFINE new == Without(sites, i)
           n   == Len(sites)
<1>1. n \in Nat /\ i \in 1..n
  OBVIOUS
<1>2. /\ new \in Seq(Site) /\ Len(new) = n - 1
      /\ \A k \in 1 .. n - 1 : new[k] = IF k = i THEN sites[n] ELSE sites[k]
  BY WithoutSites
<1>3. DOMAIN new = 1 .. n - 1
  BY <1>2
<1> HIDE DEF new, n
<1>4. ASSUME NEW k \in 1 .. n - 1
      PROVE  \E j \in 1..n \ {i} : new[k] = sites[j]
  <2>1. CASE k = i
    <3>1. n \in 1..n \ {i}
      BY <1>1, <2>1
    <3> QED
      BY <1>2, <2>1, <3>1
  <2>2. CASE k # i
    <3>1. k \in 1..n \ {i}
      BY <1>1, <2>2
    <3> QED
      BY <1>2, <2>2, <3>1
  <2> QED
    BY <2>1, <2>2
<1>5. ASSUME NEW j \in 1..n \ {i}
      PROVE  \E k \in 1 .. n - 1 : new[k] = sites[j]
  <2>1. CASE j = n
    <3>1. i \in 1 .. n - 1
      BY <1>1, <2>1
    <3> QED
      BY <1>2, <2>1, <3>1
  <2>2. CASE j # n
    <3>1. j \in 1 .. n - 1
      BY <1>1, <2>2
    <3> QED
      BY <1>2, <3>1
  <2> QED
    BY <2>1, <2>2
<1> DEFINE S == {new[k] : k \in 1 .. n - 1}
           T == {sites[k] : k \in 1..n \ {i}}
<1>6. ASSUME NEW s \in S PROVE s \in T
  BY <1>4, <1>6
<1>7. ASSUME NEW s \in T PROVE s \in S
  BY <1>5, <1>7
<1>8. S = T
  BY <1>6, <1>7
<1> QED
  BY <1>3, <1>8 DEF new, n

(* With names of their own, only one site has a name.                      *)
LEMMA NamedSite ==
  ASSUME NEW sites \in Seq(Site), Distinct(sites), NEW i \in 1..Len(sites),
         NEW n, n \in NamesOf(sites[i]), NEW S, S = {sites[k] : k \in DOMAIN sites}
  PROVE  \A k \in 1..Len(sites) : sites[k] \in Named(S, n) <=> k = i
<1>1. DOMAIN sites = 1..Len(sites)
  OBVIOUS
<1>2. \A k \in 1..Len(sites) : n \in NamesOf(sites[k]) <=> k = i
  BY DEF Distinct
<1> QED
  BY <1>1, <1>2 DEF Named

(* What a handler knows when it changes the state: its request is granted  *)
(* by the state as it is, ...                                              *)
Ready(h) ==
  LET a == at[h] IN
  /\ a.pc = "store" /\ ~Panics(h)
  /\ Distinct(mem.sites)
  /\ NameKnown(a, mem) /\ CertKnown(a, mem, Lacked)
  /\ a.req.kind \in SiteKinds => a.object = object
  /\ a.req.kind = "remove" => mem.certs[a.req.cert] # 0
  /\ a.req.kind = "generate" => mem.dh \in {0} \cup aged

LEMMA ChangeGranted ==
  ASSUME Types, NEW h \in Handlers, Ready(h)
  PROVE  Granted(Abstract(mem), at[h].req, aged)
<1> DEFINE a == at[h]
           r == at[h].req
           p == Abstract(mem)
           S == {mem.sites[k] : k \in DOMAIN mem.sites}
<1>1. /\ mem.sites \in Seq(Site) /\ DOMAIN mem.sites = 1..Len(mem.sites)
      /\ r \in Request /\ r.kind \in Kinds /\ Placed(a) /\ a.pc = "store"
  BY HandlerTypes DEF Ready
<1>2. p.sites = S /\ p.certs = mem.certs /\ p.dh = mem.dh
  BY DEF Abstract
<1>3. \A t : HasCert(p, t) <=> HasCert(mem, t)
  BY <1>2 DEF HasCert
<1>4. \A s \in S : \E k \in 1..Len(mem.sites) : s = mem.sites[k]
  BY <1>1
<1> SUFFICES Granted(p, r, aged)
  OBVIOUS
<1> HIDE DEF p, S
<1>5. CASE r.kind = "create"
  <2>1. HasCert(mem, r.site.tls) /\ \A n \in NamesOf(r.site) : Free(n, mem.sites)
    BY <1>1, <1>5 DEF Ready, Placed, NameKnown, CertKnown, Patches
  <2>2. \A n \in NamesOf(r.site) : Named(S, n) = {}
    BY <1>4, <2>1 DEF Free, Named
  <2> QED
    BY <1>2, <1>3, <1>5, <2>1, <2>2 DEF Granted
<1>6. CASE r.kind \in Patches \cup {"delete"}
  <2>1. PICK i \in 1..Len(mem.sites) : r.name \in NamesOf(mem.sites[i])
    BY <1>6 DEF Ready, NameKnown
  <2>2. Named(S, r.name) = {mem.sites[i]}
    <3>1. S = {mem.sites[k] : k \in DOMAIN mem.sites} /\ Distinct(mem.sites)
      BY DEF S, Ready
    <3>2. \A k \in 1..Len(mem.sites) : mem.sites[k] \in Named(S, r.name) <=> k = i
      BY <1>1, <2>1, <3>1, NamedSite
    <3>3. Named(S, r.name) \subseteq S
      BY DEF Named
    <3>4. \A s \in Named(S, r.name) : s = mem.sites[i]
      BY <1>4, <3>2, <3>3
    <3> QED
      BY <2>1, <3>2, <3>4
  <2>3. CASE r.kind = "tls"
    <3>1. HasCert(mem, r.cert)
      BY <1>1, <2>3 DEF Ready, Placed, CertKnown, Patches
    <3> QED
      BY <1>2, <1>3, <2>2, <2>3, <3>1 DEF Granted
  <2>4. CASE r.kind = "aliases"
    <3>1. ASSUME NEW n \in r.aliases, NEW s \in S, n \in NamesOf(s)
          PROVE  s = mem.sites[i]
      <4>1. PICK k \in 1..Len(mem.sites) : s = mem.sites[k]
        BY <1>4
      <4>2. mem.sites[k].domain = a.site.domain
        BY <1>1, <2>4, <3>1, <4>1 DEF Ready, NameKnown, Own
      <4>3. /\ a.index \in 1..Len(mem.sites)
            /\ mem.sites[a.index].domain = a.site.domain
            /\ r.name \in NamesOf(mem.sites[a.index])
        BY <1>1, <2>4, UpdatedSite DEF Ready, Patches
      <4>4. \A j \in 1..Len(mem.sites) :
              mem.sites[j].domain = a.site.domain => j = a.index
        BY <4>3 DEF Ready, Distinct, NamesOf
      <4>5. i = a.index
        BY <2>1, <4>3 DEF Ready, Distinct
      <4> QED
        BY <4>1, <4>2, <4>4, <4>5
    <3>2. \A n \in r.aliases : Named(S, n) \subseteq Named(S, r.name)
      BY <2>2, <3>1 DEF Named
    <3> QED
      BY <1>2, <2>2, <2>4, <3>2 DEF Granted
  <2>5. CASE r.kind \in {"deploy", "delete"}
    BY <1>2, <2>2, <2>5 DEF Granted
  <2> QED
    BY <1>6, <2>3, <2>4, <2>5 DEF Patches
<1>7. CASE r.kind = "remove"
  <2>1. Unused(r.cert, mem.sites) /\ mem.certs[r.cert] # 0
    BY <1>1, <1>7 DEF Ready, CertKnown
  <2>2. \A s \in S : s.tls # r.cert
    BY <1>4, <2>1 DEF Unused
  <2> QED
    BY <1>2, <1>7, <2>1, <2>2 DEF Granted
<1>8. CASE r.kind = "generate"
  BY <1>2, <1>8 DEF Granted, Ready
<1>9. CASE r.kind \in {"import", "replace", "params"}
  BY <1>9 DEF Granted
<1> QED
  BY <1>1, <1>5, <1>6, <1>7, <1>8, <1>9 DEF Kinds, SiteKinds, p

(* ... and its change is that of the request.                              *)
LEMMA ChangeEffect ==
  ASSUME Types, NEW h \in Handlers, Ready(h), Change(at[h].req, at[h])
  PROVE  Abstract(mem') = Effect(Abstract(mem), at[h].req)
<1> DEFINE a == at[h]
           r == at[h].req
           S == {mem.sites[k] : k \in DOMAIN mem.sites}
           T == {mem'.sites[k] : k \in DOMAIN mem'.sites}
           c == mem.certs
           d == mem.dh
           p == [sites |-> S, certs |-> c, dh |-> d]
<1>1. /\ mem.sites \in Seq(Site) /\ DOMAIN mem.sites = 1..Len(mem.sites)
      /\ r \in Request /\ r.kind \in Kinds /\ Placed(a) /\ a.pc = "store" /\ ~Panics(h)
      /\ mem \in State
  BY HandlerTypes DEF Ready
<1>2. /\ Abstract(mem) = p
      /\ Abstract(mem') = [sites |-> T, certs |-> mem'.certs, dh |-> mem'.dh]
  BY DEF Abstract
<1> SUFFICES [sites |-> T, certs |-> mem'.certs, dh |-> mem'.dh] = Effect(p, r)
  BY <1>2
<1> HIDE DEF S, T, c, d
<1>3. ASSUME r.kind \in SiteKinds
      PROVE  a.object = object /\ mem'.certs = c /\ mem'.dh = d
  BY <1>1, <1>3, ChangeMakes DEF Ready, c, d
<1>4. CASE r.kind = "create"
  <2> DEFINE sites == mem.sites
  <2>1. mem'.sites = Append(sites, r.site)
    BY <1>1, <1>3, <1>4, ChangeMakes DEF Ready, NameKnown, Placed, SiteKinds, Patches
  <2>2. sites \in Seq(Site)
    BY <1>1
  <2>3. S = {sites[k] : k \in DOMAIN sites} /\ T = {mem'.sites[k] : k \in DOMAIN mem'.sites}
    BY DEF S, T
  <2> HIDE DEF sites
  <2>4. T = S \cup {r.site}
    BY <2>1, <2>2, <2>3, AppendRange
  <2> QED
    BY <1>3, <1>4, <2>4 DEF SiteKinds, Effect, Patches
<1>5. CASE r.kind \in Patches
  <2> DEFINE i == a.index
             F(s) == IF s \in Named(S, r.name) THEN Patched(s, r) ELSE s
  <2>1. /\ i \in 1..Len(mem.sites) /\ a.site = Patched(mem.sites[i], r)
        /\ r.name \in NamesOf(mem.sites[i])
    BY <1>1, <1>5, UpdatedSite DEF Ready
  <2>2. mem'.sites = [mem.sites EXCEPT ![i] = a.site]
    BY <1>1, <1>3, <1>5, ChangeMakes DEF SiteKinds
  <2>3. \A k \in 1..Len(mem.sites) : mem.sites[k] \in Named(S, r.name) <=> k = i
    <3>1. S = {mem.sites[k] : k \in DOMAIN mem.sites} /\ Distinct(mem.sites)
      BY DEF S, Ready
    <3> QED
      BY <1>1, <2>1, <3>1, NamedSite
  <2>4. \A k \in 1..Len(mem.sites) : mem'.sites[k] = F(mem.sites[k])
    BY <1>1, <2>1, <2>2, <2>3
  <2>5. DOMAIN mem'.sites = 1..Len(mem.sites)
    BY <1>1, <2>2
  <2> HIDE DEF F, i
  <2>6. T = {F(s) : s \in S}
    BY <1>1, <2>4, <2>5 DEF S, T
  <2> QED
    <3>1. T = {IF s \in Named(S, r.name) THEN Patched(s, r) ELSE s : s \in S}
      BY <2>6 DEF F
    <3>2. Effect(p, r) = [p EXCEPT !.sites =
                            {IF s \in Named(@, r.name) THEN Patched(s, r) ELSE s : s \in @}]
      BY <1>5 DEF Effect, Patches
    <3>3. mem'.certs = c /\ mem'.dh = d
      BY <1>3, <1>5 DEF SiteKinds
    <3> QED
      BY <3>1, <3>2, <3>3
<1>6. CASE r.kind = "delete"
  <2> DEFINE sites == mem.sites
             i     == a.index
  <2>1. mem'.sites = Without(sites, i) /\ i \in 1..Len(sites)
    BY <1>1, <1>3, <1>6, ChangeMakes DEF SiteKinds
  <2>2. r.name \in NamesOf(sites[i]) /\ Distinct(sites) /\ sites \in Seq(Site)
    BY <1>1, <1>6 DEF Ready, NameKnown
  <2>3. S = {sites[k] : k \in DOMAIN sites} /\ T = {mem'.sites[k] : k \in DOMAIN mem'.sites}
    BY DEF S, T
  <2> HIDE DEF sites, i
  <2>4. T = {sites[k] : k \in 1..Len(sites) \ {i}}
    BY <2>1, <2>2, <2>3, WithoutRange
  <2>5. S \ Named(S, r.name) = {sites[k] : k \in 1..Len(sites) \ {i}}
    <3>1. \A k \in 1..Len(sites) : sites[k] \in Named(S, r.name) <=> k = i
      BY <2>1, <2>2, <2>3, NamedSite
    <3>2. DOMAIN sites = 1..Len(sites)
      BY <2>2
    <3> DEFINE U == {sites[k] : k \in 1..Len(sites) \ {i}}
    <3>3. ASSUME NEW s \in S \ Named(S, r.name) PROVE s \in U
      BY <2>3, <3>1, <3>2, <3>3
    <3>4. ASSUME NEW s \in U PROVE s \in S \ Named(S, r.name)
      BY <2>3, <3>1, <3>2, <3>4
    <3> QED
      BY <3>3, <3>4
  <2> QED
    BY <1>3, <1>6, <2>4, <2>5 DEF SiteKinds, Effect, Patches
<1>7. CASE r.kind \in {"import", "remove", "params", "generate"}
  <2>1. mem'.sites = mem.sites
    BY <1>1, <1>7, ChangeMakes
  <2>2. T = S
    BY <2>1 DEF S, T
  <2>3. CASE r.kind = "import"
    <3>1. mem'.certs = [c EXCEPT ![r.cert] = @ + 1] /\ mem'.dh = d
      BY <1>1, <2>3, ChangeMakes DEF c, d
    <3> QED
      BY <2>2, <2>3, <3>1 DEF Effect, Patches
  <2>4. CASE r.kind = "remove"
    <3>1. mem'.certs = [c EXCEPT ![r.cert] = 0] /\ mem'.dh = d
      BY <1>1, <2>4, ChangeMakes DEF c, d
    <3> QED
      BY <2>2, <2>4, <3>1 DEF Effect, Patches
  <2>5. CASE r.kind \in {"params", "generate"}
    <3>1. mem'.certs = c /\ mem'.dh = r.id
      BY <1>1, <2>5, ChangeMakes DEF c, d
    <3> QED
      BY <2>2, <2>5, <3>1 DEF Effect, Patches
  <2> QED
    BY <1>7, <2>3, <2>4, <2>5
<1>8. CASE r.kind = "replace"
  <2>1. mem' = r.state
    BY <1>1, <1>8, ChangeMakes
  <2> QED
    <3>1. Abstract(mem') = Abstract(r.state)
      BY <2>1 DEF Abstract
    <3>2. Effect(p, r) = Abstract(r.state)
      BY <1>8 DEF Effect, Patches
    <3> QED
      BY <1>2, <3>1, <3>2
<1> QED
  BY <1>1, <1>4, <1>5, <1>6, <1>7, <1>8 DEF Kinds, SiteKinds

(* A request that met no other is handled alone.                           *)
LEMMA Alone ==
  ASSUME MetInv, InTurn, NEW h \in Busy
  PROVE  \A x \in Handlers : x # h => at[x].pc = "idle"
BY DEF MetInv, Busy, InTurn

(* A handler that has changed nothing and stops.                           *)
LEMMA AllowedRefuse ==
  ASSUME Types, MetInv, AllowedInv, NEW h \in Handlers, Handle(h),
         at[h].pc \notin Written, Refuse(h), UNCHANGED <<mem, file, may, aged>>
  PROVE  AllowedInv'
<1> SUFFICES ASSUME InTurn
             PROVE  /\ \A x \in Handlers : at'[x].pc = "idle"
                    /\ Abstract(mem) \in may /\ Abstract(file) \in may
  BY HandlerKeeps DEF AllowedInv, Busy, InTurn, NamesGiven
<1>1. h \in Busy
  BY HandlerKeeps DEF Busy
<1>2. \A x \in Handlers : at'[x].pc = "idle"
  BY <1>1, Alone, RefuseMakes, HandlerKeeps
<1>3. Abstract(mem) \in may /\ Abstract(file) \in may
  BY <1>1 DEF AllowedInv, Allowed, Written
<1> QED
  BY <1>2, <1>3

(* A handler that goes on.                                                 *)
LEMMA AllowedTest ==
  ASSUME Types, MetInv, AllowedInv, NEW h \in Handlers, Handle(h),
         at'[h].pc # "idle",
         InTurn /\ Allowed(at[h], mem, file, may, aged)
         => Allowed(at'[h], mem', file', may', aged')
  PROVE  AllowedInv'
<1> SUFFICES ASSUME InTurn, NEW x \in Handlers, at'[x].pc # "idle"
             PROVE  Allowed(at'[x], mem', file', may', aged')
  BY HandlerKeeps DEF AllowedInv, Busy, InTurn, NamesGiven
<1>1. h \in Busy
  BY HandlerKeeps DEF Busy
<1>2. x = h
  BY <1>1, Alone, HandlerKeeps
<1> QED
  BY <1>1, <1>2 DEF AllowedInv

LEMMA AllowedSteps ==
  ASSUME Types, MetInv, AllowedInv, NEW h \in Handlers, Handle(h),
         \/ Get(h) \/ NamesChecked(h) \/ CheckCertificate(h) \/ CheckUnused(h)
         \/ CheckParams(h) \/ Generated(h)
         \/ \E n \in Names : CheckName(h, n)
         \/ Find(h)
  PROVE  AllowedInv'
<1> DEFINE a == at[h]
           b == at'[h]
<1>1. UNCHANGED <<mem, file, may, aged>>
  BY DEF Get, NamesChecked, CheckCertificate, CheckUnused, CheckParams, Generated,
         CheckName, Find, history, storeVars
<1>2. a.pc \notin Written
  BY DEF Get, NamesChecked, CheckCertificate, CheckUnused, CheckParams, Generated,
         CheckName, Find, Written
<1>3. CASE Refuse(h)
  BY <1>1, <1>2, <1>3, AllowedRefuse
<1>4. CASE ~Refuse(h)
  <2> SUFFICES /\ b.pc \notin Written \cup {"idle"}
               /\ b.pc \in {"used", "store"} /\ b.req.kind = "remove"
                  => \/ mem.certs[b.req.cert] # 0
                     \/ a.pc \in {"used", "store"} /\ a.req = b.req
               /\ b.pc \in {"generate", "store"} /\ b.req.kind = "generate"
                  => \/ mem.dh \in {0} \cup aged
                     \/ a.pc \in {"generate", "store"} /\ a.req = b.req
    <3>1. Allowed(a, mem, file, may, aged) => Allowed(b, mem', file', may', aged')
      BY <1>1, <1>2 DEF Allowed, Written
    <3> QED
      BY <3>1, AllowedTest
  <2> USE DEF Written
  <2>1. CASE Get(h)
    BY <1>4, <2>1, GetMakes DEF Patches
  <2>2. CASE NamesChecked(h)
    BY <2>2, GoesMakes DEF NamesChecked
  <2>3. CASE CheckCertificate(h)
    BY <1>4, <2>3, GoesMakes DEF CheckCertificate
  <2>4. CASE CheckUnused(h)
    <3>1. a.req.kind = "remove"
      BY <2>4, HandlerTypes DEF CheckUnused, Placed
    <3> QED
      BY <1>4, <2>4, <3>1, GoesMakes DEF CheckUnused
  <2>5. CASE CheckParams(h)
    <3>1. b.pc = "generate" /\ b.req = a.req /\ a.req.kind = "generate"
      BY <1>4, <2>5, HandlerTypes DEF CheckParams, Types, TypeOK, Handler, Placed
    <3> QED
      BY <1>4, <2>5, <3>1 DEF CheckParams
  <2>6. CASE Generated(h)
    <3>1. a.req.kind = "generate"
      BY <2>6, HandlerTypes DEF Generated, Placed
    <3> QED
      BY <1>4, <2>6, <3>1, GoesMakes DEF Generated
  <2>7. ASSUME NEW n \in Names, CheckName(h, n)
        PROVE  b.pc = "names"
    BY <1>4, <2>7, CheckNameMakes
  <2>8. CASE Find(h)
    BY <1>4, <2>8, FindMakes DEF SiteKinds, Patches
  <2> QED
    BY <2>1, <2>2, <2>3, <2>4, <2>5, <2>6, <2>7, <2>8
<1> QED
  BY <1>3, <1>4

LEMMA AllowedStore ==
  ASSUME Types, MetInv, NameInv, CertInv, AllowedInv, NEW h \in Handlers, Handle(h),
         Store(h)
  PROVE  AllowedInv'
<1> DEFINE a == at[h]
           b == at'[h]
<1>1. UNCHANGED <<may, aged>> /\ a.pc = "store" /\ h \in Busy
  BY HandlerKeeps DEF Store, history, Busy
<1>2. CASE Panics(h)
  BY <1>1, <1>2, AllowedRefuse DEF Store, storeVars, Written
<1>3. CASE ~Panics(h)
  <2>1. SUFFICES ASSUME InTurn, Allowed(a, mem, file, may, aged)
                 PROVE  Allowed(b, mem', file', may, aged)
    BY <1>1, <1>3, StoreMakes, AllowedTest
  <2>2. /\ b.pc = "sites" /\ b.req = a.req /\ Change(a.req, a) /\ file' = file
    BY <1>3, StoreMakes, ChangeTypes
  <2>3. SitesInTurn /\ NoRemovals
    BY <2>1 DEF SitesInTurn, NoRemovals, Met, InTurn
  <2>4. Ready(h)
    BY <1>1, <1>3, <2>1, <2>3 DEF Ready, NameInv, CertInv, Allowed
  <2>5. Abstract(mem) \in may /\ Abstract(file) \in may
    BY <1>1, <2>1 DEF Allowed, Written
  <2>6. Abstract(mem') \in After(a.req, may, aged)
    BY <2>2, <2>4, <2>5, ChangeGranted, ChangeEffect DEF After
  <2> QED
    BY <2>2, <2>5, <2>6 DEF Allowed, Written
<1> QED
  BY <1>2, <1>3

LEMMA AllowedWrite ==
  ASSUME Types, MetInv, CertInv, AllowedInv, NEW h \in Handlers, Handle(h),
         MarshalSites(h) \/ MarshalSecrets(h) \/ Write(h)
  PROVE  AllowedInv'
<1> DEFINE a == at[h]
           b == at'[h]
<1>1. UNCHANGED <<mem, may, aged>>
  BY DEF MarshalSites, MarshalSecrets, Write, WriteFile, history, storeVars
<1> b.pc # "idle"
  BY MarshalMakes, WriteMakes
<1> SUFFICES ASSUME Allowed(a, mem, file, may, aged), InTurn
             PROVE  Allowed(b, mem, file', may, aged)
  BY <1>1, AllowedTest
<1>2. CASE MarshalSites(h)
  <2>1. file' = file
    BY <1>2 DEF MarshalSites, storeVars
  <2> QED
    BY <1>2, <2>1, MarshalMakes DEF Allowed, Written
<1>3. CASE MarshalSecrets(h)
  <2>1. file' = file
    BY <1>3 DEF MarshalSecrets, storeVars
  <2>2. b.data \in State /\ mem \in State
    BY HandlerTypes, HandlerKeeps DEF Handler
  <2>3. b.data = mem
    <3>1. a.object = object
      BY <1>3 DEF MarshalSecrets, CertInv, InTurn, NoRemovals
    <3>2. b.data.sites = mem.sites /\ b.data.certs = mem.certs /\ b.data.dh = mem.dh
      BY <1>3, <3>1, MarshalMakes DEF Allowed
    <3> QED
      BY <2>2, <3>2 DEF State
  <2> QED
    BY <1>3, <2>1, <2>3, MarshalMakes DEF Allowed, Written
<1>4. CASE Write(h)
  BY <1>4, WriteMakes DEF Allowed, Written
<1> QED
  BY <1>2, <1>3, <1>4

LEMMA AllowedNext ==
  Types /\ MetInv /\ NameInv /\ CertInv /\ AllowedInv /\ [Next]_vars => AllowedInv'
<1> SUFFICES ASSUME Types, MetInv, NameInv, CertInv, AllowedInv, [Next]_vars
             PROVE  AllowedInv'
  OBVIOUS
<1>1. ASSUME NEW h \in Handlers, Handle(h) PROVE AllowedInv'
  <2>1. CASE WriteFails(h) \/ Answer(h)
    <3>1. SUFFICES ASSUME InTurn
                   PROVE  /\ \A x \in Handlers : at'[x].pc = "idle"
                          /\ Abstract(mem') \in may' /\ Abstract(file') \in may'
      BY <1>1, HandlerKeeps DEF AllowedInv, Busy, InTurn, NamesGiven
    <3>2. h \in Busy
      BY <1>1, HandlerKeeps DEF Busy
    <3>3. \A x \in Handlers : at'[x].pc = "idle"
      BY <1>1, <2>1, <3>1, <3>2, Alone, RefuseMakes, HandlerKeeps DEF WriteFails, Answer
    <3>4. mem' = mem /\ file' = file
      BY <2>1 DEF WriteFails, Answer, storeVars
    <3>5. Allowed(at[h], mem, file, may, aged)
      BY <3>1, <3>2 DEF AllowedInv
    <3>6. CASE WriteFails(h)
      BY <3>3, <3>4, <3>5, <3>6 DEF WriteFails, Allowed, Written
    <3>7. CASE Answer(h)
      BY <3>3, <3>4, <3>5, <3>7 DEF Answer, Allowed, Written
    <3> QED
      BY <2>1, <3>6, <3>7
  <2> QED
    BY <1>1, <2>1, AllowedSteps, AllowedStore, AllowedWrite DEF Handle
<1>2. ASSUME NEW h \in Handlers, NEW r \in scenario.requests, Begin(h, r)
      PROVE  AllowedInv'
  <2>1. SUFFICES ASSUME InTurn' PROVE AllowedInv'
    BY DEF AllowedInv
  <2>2. Busy = {} /\ InTurn
    BY <1>2, <2>1 DEF Begin, InTurn, NamesGiven
  <2>3. /\ Abstract(mem) \in may /\ Abstract(file) \in may
        /\ UNCHANGED <<mem, file, may, aged>>
    BY <1>2, <2>2 DEF AllowedInv, Begin, storeVars
  <2>4. \A x \in Handlers : x # h => at'[x].pc = "idle"
    BY <1>2, <2>2, BeginMakes DEF Busy
  <2>5. Allowed(at'[h], mem, file, may, aged)
    <3>1. /\ at'[h].pc \notin Written
          /\ at'[h].pc = "store" => at'[h].req.kind \notin {"remove", "generate"}
          /\ at'[h].pc \notin {"used", "generate"}
      BY <1>2, BeginMakes DEF FirstPlace, Patches, Written
    <3> QED
      BY <2>3, <3>1 DEF Allowed, Written
  <2>6. at'[h].pc # "idle"
    BY <1>2, BeginMakes DEF FirstPlace, Patches
  <2> QED
    BY <2>3, <2>4, <2>5, <2>6 DEF AllowedInv, Busy
<1>3. CASE Sync
  BY <1>3 DEF Sync, AllowedInv, storeVars, Busy, InTurn, NamesGiven
<1>4. CASE ParamsAge
  <2>1. UNCHANGED <<mem, file, at, may, met, given>> /\ aged \subseteq aged'
    BY <1>4 DEF ParamsAge, storeVars
  <2>2. ASSUME NEW p, NEW r, Granted(p, r, aged) PROVE Granted(p, r, aged')
    BY <2>1, <2>2 DEF Granted
  <2>3. \A r : After(r, may, aged) \subseteq After(r, may, aged')
    BY <2>2 DEF After
  <2>4. \A h \in Busy : Allowed(at[h], mem, file, may, aged)
                        => Allowed(at[h], mem, file, may, aged')
    BY <2>1, <2>3 DEF Allowed
  <2> QED
    BY <2>1, <2>4 DEF AllowedInv, Busy, InTurn, NamesGiven
<1>5. CASE Crash
  <2>1. SUFFICES ASSUME InTurn
                 PROVE  Abstract(file) \in may'
    <3>1. \A h \in Handlers : at'[h].pc = "idle"
      BY <1>5 DEF Crash, Idle
    <3>2. mem' = file /\ file' = file /\ UNCHANGED <<met, given>>
      BY <1>5 DEF Crash, ReadState
    <3> QED
      BY <3>1, <3>2 DEF AllowedInv, Busy, InTurn, NamesGiven
  <2>2. may' = may \cup UNION {After(at[h].req, may, aged) : h \in Busy}
    BY <1>5 DEF Crash
  <2>3. CASE Busy = {}
    BY <2>1, <2>2, <2>3 DEF AllowedInv
  <2>4. ASSUME NEW h \in Busy PROVE Abstract(file) \in may'
    BY <2>1, <2>2 DEF AllowedInv, Allowed
  <2> QED
    BY <2>3, <2>4
<1>6. CASE UNCHANGED vars
  BY <1>6 DEF vars, storeVars, routeVars, AllowedInv, Busy, InTurn, NamesGiven
<1> QED
  BY <1>1, <1>2, <1>3, <1>4, <1>5, <1>6 DEF Next

(* For any requests, one after the other, with any faults, and states from *)
(* outside that tell the sites apart by their names: what was answered with*)
(* success is in memory and in the file, and what failed or was cut short  *)
(* was done as a whole or not at all.                                      *)
THEOREM AnswersAreKeptAlways == Spec => []AnswersAreKept
<1>1. Init => AllowedInv
  BY DEF Init, AllowedInv, Busy, Idle
<1>2. AllowedInv => AnswersAreKept
  BY DEF AllowedInv, AnswersAreKept, InTurn, NamesGiven
<1> QED
  BY <1>1, <1>2, TypesInit, TypesNext, MetNext, CertInit, CertNext, NameInit, NameNext,
     AllowedNext, PTL DEF Spec
=============================================================================
