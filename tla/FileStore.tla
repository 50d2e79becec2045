----------------------------- MODULE FileStore -----------------------------
(***************************************************************************)
(* The store of a node that runs alone (src/state/store-file.go) and the   *)
(* operations of the state manager over it (src/state/state.go).           *)
(*                                                                         *)
(* The state is one object, to which every operation gets a pointer, and a *)
(* file that is replaced as a whole.  AcquireLock does nothing, so that    *)
(* operations interleave: each is the steps Find, Store, and those of      *)
(* WriteState.                                                             *)
(***************************************************************************)
EXTENDS Naturals, Sequences, FiniteSets, FiniteSetsExt

CONSTANTS
  Names,       (* domains and aliases                                      *)
  Certs,       (* the names of imported certificates                       *)
  SelfSigned,  (* the TLS type that needs no certificate of the state      *)
  Apps, NoApp

ASSUME StoreAssumption == SelfSigned \notin Certs /\ NoApp \notin Apps

VARIABLES
  mem,      (* what s.state points to: the sites, the certificates, the    *)
            (* DH parameters                                               *)
  gone,     (* certificates and parameters of the objects that s.state     *)
            (* pointed to before, which a WriteState may still be reading  *)
  file      (* the state in the file                                       *)

storeVars == <<mem, gone, file>>

(* Which object s.state points to.                                         *)
object == Len(gone)

Site == [domain : Names, aliases : SUBSET Names,
         tls : Certs \cup {SelfSigned}, app : Apps \cup {NoApp}]

(* A certificate is how many times it was imported, 0 when it is not       *)
(* there; DH parameters are who has made them, 0 for those built in.       *)
State == [sites : Seq(Site), certs : [Certs -> Nat], dh : Nat]

Secrets(s) == [certs |-> s.certs, dh |-> s.dh]

StoreTypeOK ==
  /\ mem \in State /\ file \in State
  /\ gone \in Seq([certs : [Certs -> Nat], dh : Nat])

NamesOf(site) == {site.domain} \cup site.aliases

First(S) == IF S = {} THEN 0 ELSE Min(S)

(* Mutant: aliases are not looked at.                                      *)
GetSite_Domain(sites, n) == First({i \in DOMAIN sites : sites[i].domain = n})

(* The index of the first site with the name, 0 when there is none.        *)
GetSite(sites, n) == First({i \in DOMAIN sites : n \in NamesOf(sites[i])})

(* UpdateSite looks for the domain only.                                   *)
SameDomain(sites, site) ==
  First({i \in DOMAIN sites : sites[i].domain = site.domain})

(* Mutant: the last element is dropped without taking the other's place.   *)
Without_NotMoved(sites, i) == SubSeq(sites, 1, Len(sites) - 1)

(* The last element takes the place of the one that is removed.            *)
Without(sites, i) ==
  SubSeq([sites EXCEPT ![i] = sites[Len(sites)]], 1, Len(sites) - 1)

-----------------------------------------------------------------------------
(* Operations.  A change is made to the object that the operation has a    *)
(* pointer to; it is lost when that is no longer the state.                *)
SetSites(o, sites) ==
  /\ mem' = IF o = object THEN [mem EXCEPT !.sites = sites] ELSE mem
  /\ UNCHANGED <<gone, file>>

(* append: what was read before, with one more.                            *)
AddSite(o, read, site) == SetSites(o, Append(read, site))

UpdateSite(o, i, site) ==
  SetSites(o, [mem.sites EXCEPT ![i] = site])

DeleteSite(o, i) == SetSites(o, Without(mem.sites, i))

SetCertificate(c) ==
  /\ mem' = [mem EXCEPT !.certs[c] = @ + 1]
  /\ UNCHANGED <<gone, file>>

RemoveCertificate(c) ==
  /\ mem' = [mem EXCEPT !.certs[c] = 0]
  /\ UNCHANGED <<gone, file>>

SetDHParams(d) ==
  /\ mem' = [mem EXCEPT !.dh = d]
  /\ UNCHANGED <<gone, file>>

ReplaceState(new) ==
  /\ mem' = new
  /\ gone' = Append(gone, Secrets(mem))
  /\ UNCHANGED file

(* renameio: the file has the old content or the new one.                  *)
WriteFile(data) ==
  /\ file' = data
  /\ UNCHANGED <<mem, gone>>

(* A process starts.                                                       *)
ReadState ==
  /\ mem' = file
  /\ gone' = <<>>
  /\ UNCHANGED file
=============================================================================
