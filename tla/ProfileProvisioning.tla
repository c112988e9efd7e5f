------------------------ MODULE ProfileProvisioning ------------------------
(***************************************************************************)
(* RouterOSClient.provision_profile (routeros.py): the requests by which   *)
(* one dashboard call makes a client certificate, exports it, lets the     *)
(* router write an OpenVPN profile, reads that profile back, and removes   *)
(* every temporary file again.  Several calls run at once against the same *)
(* router: they share its file list and its one CA export.  Every request  *)
(* may be refused, or take effect and lose its answer; the review lock     *)
(* that guards a change may be lost before it.                             *)
(*                                                                         *)
(* RouterOS is external: it is modelled from the answers the client reads. *)
(* Certificate names carry a random suffix and are taken to be unique, so  *)
(* a certificate is known by the call that makes it.  A request whose      *)
(* answer was lost has already taken effect or never will.                 *)
(***************************************************************************)
EXTENDS Naturals, FiniteSets

CONSTANTS Provisioners, \* concurrent calls of provision_profile
          Nobody,       \* the owner of the shared CA export
          MaxMishaps    \* refusals, lost answers and lost locks in a run

VARIABLES job,      \* per call: where it stands and its local variables
          cert,     \* per call: its certificate on the router
          files,    \* the router's files
          nextFile, \* the id RouterOS gives to the next file
          mishaps

router == <<cert, files, nextFile>>
vars == <<job, cert, files, nextFile, mishaps>>

NoBaseline == {0}   \* profile_export_baseline is None: file ids start at 1
NoProfile == [id |-> 0, kind |-> "ovpn", owner |-> Nobody, ca |-> "old"]

Stages == {"create", "locate", "sign", "trust", "export", "inventory",
           "findCa", "dropCa", "goneCa", "exportCa", "readCa", "baseline",
           "profile", "identify", "verify",
           "inventoryLeft", "dropFile", "goneFile",
           "findCert", "dropCert", "goneCert", "done"}
Results == {"pending", "profile", "failed", "filesRemain", "certRemains",
            "coordination"}
File == [id : Nat, kind : {"ca", "crt", "key", "ovpn"},
         owner : Provisioners \cup {Nobody}, ca : {"old", "current"}]

TypeOK ==
  /\ job \in [Provisioners ->
                [at : Stages, knows : BOOLEAN, named : BOOLEAN,
                 taken : SUBSET Nat, left : SUBSET Nat, target : Nat,
                 since : SUBSET Nat, found : BOOLEAN, profile : File,
                 unsafe : BOOLEAN, error : {"none", "router", "coordination"},
                 result : Results]]
  /\ cert \in [Provisioners -> {"none", "created", "signed", "trusted"}]
  /\ files \subseteq File
  /\ nextFile \in Nat
  /\ mishaps \in 0..MaxMishaps

Fresh == [at |-> "create", knows |-> FALSE, named |-> FALSE, taken |-> {},
          left |-> {}, target |-> 0, since |-> NoBaseline, found |-> FALSE,
          profile |-> NoProfile, unsafe |-> FALSE, error |-> "none",
          result |-> "pending"]

\* A CA export of an earlier authority may still lie on the router.
Init ==
  /\ job = [p \in Provisioners |-> Fresh]
  /\ cert = [p \in Provisioners |-> "none"]
  /\ files \in {{}, {[id |-> 1, kind |-> "ca", owner |-> Nobody, ca |-> "old"]}}
  /\ nextFile = 2
  /\ mishaps = 0

-----------------------------------------------------------------------------
(* Requests.                                                               *)

Mishap == mishaps < MaxMishaps /\ mishaps' = mishaps + 1
Becomes(p, j) == job' = [job EXCEPT ![p] = j]

\* An exception in the body: the finally block runs next.
Failed(j, e) == [j EXCEPT !.error = e, !.at = "inventoryLeft"]

\* A GET: answered, or failed.
Read(p, then, broken) ==
  /\ UNCHANGED router
  /\ \/ Becomes(p, then) /\ UNCHANGED mishaps
     \/ Becomes(p, broken) /\ Mishap

\* A change: check_mutation first, then the request, which takes effect or
\* not and answers or not.
Send(p, Effect, then, broken, unowned) ==
  \/ Effect /\ Becomes(p, then) /\ UNCHANGED mishaps
  \/ (Effect \/ UNCHANGED router) /\ Becomes(p, broken) /\ Mishap
  \/ UNCHANGED router /\ Becomes(p, unowned) /\ Mishap

SendOrFail(p, Effect, then) ==
  Send(p, Effect, then, Failed(job[p], "router"), Failed(job[p], "coordination"))

CertBecomes(p, state) ==
  cert' = [cert EXCEPT ![p] = state] /\ UNCHANGED <<files, nextFile>>

Written(p, kinds) ==
  /\ files' = files \cup {[id |-> nextFile + i - 1, kind |-> kinds[i], owner |-> p,
                           ca |-> "current"] : i \in DOMAIN kinds}
  /\ nextFile' = nextFile + Cardinality(DOMAIN kinds)
  /\ UNCHANGED cert

Removed(id) ==
  files' = {f \in files : f.id # id} /\ UNCHANGED <<cert, nextFile>>

Own(p, kinds) == {f \in files : f.owner = p /\ f.kind \in kinds}
CaExports == {f \in files : f.kind = "ca"}
Ids(S) == {f.id : f \in S}

-----------------------------------------------------------------------------
(* The body of provision_profile.                                          *)

\* PUT /certificate; RouterOS may answer without the new id.
Create(p) ==
  /\ job[p].at = "create"
  /\ \E id \in BOOLEAN :
        SendOrFail(p, CertBecomes(p, "created"),
          [job[p] EXCEPT !.knows = id, !.at = IF id THEN "sign" ELSE "locate"])

Locate(p) ==
  /\ job[p].at = "locate"
  /\ Read(p, [job[p] EXCEPT !.knows = TRUE, !.at = "sign"], Failed(job[p], "router"))

Sign(p) ==
  /\ job[p].at = "sign"
  /\ SendOrFail(p, CertBecomes(p, "signed"), [job[p] EXCEPT !.at = "trust"])

Trust(p) ==
  /\ job[p].at = "trust"
  /\ SendOrFail(p, CertBecomes(p, "trusted"), [job[p] EXCEPT !.at = "export"])

\* The names are noted before the export is asked for; the check that they
\* are free reads the file list first.
Export(p) ==
  LET j == [job[p] EXCEPT !.named = TRUE] IN
  /\ job[p].at = "export"
  /\ \/ UNCHANGED router /\ Becomes(p, Failed(job[p], "router")) /\ Mishap
     \/ Send(p, Written(p, <<"crt", "key">>), [j EXCEPT !.at = "inventory"],
             Failed(j, "router"), Failed(j, "coordination"))

\* The ids of both files are kept before the certificate is read.
Inventory(p) ==
  LET j == [job[p] EXCEPT !.taken = Ids(Own(p, {"crt", "key"}))] IN
  /\ job[p].at = "inventory"
  /\ \/ Read(p, [j EXCEPT !.at = "findCa"], Failed(job[p], "router"))
     \/ Read(p, [j EXCEPT !.at = "findCa"], Failed(j, "router"))

\* Mutant: an export that lies there is used.
FindAnyCa(p) ==
  /\ job[p].at = "findCa"
  /\ Read(p, [job[p] EXCEPT !.at = IF CaExports = {} THEN "exportCa" ELSE "baseline"],
          Failed(job[p], "router"))

\* _ensure_ca_export: an existing export is never trusted, it is deleted.
FindCa(p) ==
  /\ job[p].at = "findCa"
  /\ \/ /\ CaExports = {}
        /\ Read(p, [job[p] EXCEPT !.at = "exportCa"], Failed(job[p], "router"))
     \/ \E f \in CaExports :
          Read(p, [job[p] EXCEPT !.target = f.id, !.at = "dropCa"],
               Failed(job[p], "router"))

DropCa(p) ==
  LET next == [job[p] EXCEPT !.at = "goneCa"] IN
  /\ job[p].at = "dropCa"
  /\ Send(p, Removed(job[p].target), next, next, Failed(job[p], "coordination"))

GoneCa(p) ==
  /\ job[p].at = "goneCa"
  /\ Read(p, IF job[p].target \in Ids(files) THEN Failed(job[p], "router")
             ELSE [job[p] EXCEPT !.at = "exportCa"],
          Failed(job[p], "router"))

\* RouterOS writes over a file of the same name.
ExportCa(p) ==
  LET Fill == IF CaExports = {}
              THEN /\ files' = files \cup {[id |-> nextFile, kind |-> "ca",
                                            owner |-> Nobody, ca |-> "current"]}
                   /\ nextFile' = nextFile + 1
                   /\ UNCHANGED cert
              ELSE /\ files' = (files \ CaExports)
                               \cup {[f EXCEPT !.ca = "current"] : f \in CaExports}
                   /\ UNCHANGED <<cert, nextFile>>
  IN /\ job[p].at = "exportCa"
     /\ SendOrFail(p, Fill, [job[p] EXCEPT !.at = "readCa"])

\* The exported CA is read and compared with the configured fingerprint.
ReadCa(p) ==
  /\ job[p].at = "readCa"
  /\ Read(p, IF \E f \in CaExports : f.ca = "current"
             THEN [job[p] EXCEPT !.at = "baseline"]
             ELSE Failed(job[p], "router"),
          Failed(job[p], "router"))

Baseline(p) ==
  /\ job[p].at = "baseline"
  /\ Read(p, [job[p] EXCEPT !.since = Ids({f \in files : f.kind = "ovpn"}),
                            !.at = "profile"],
          Failed(job[p], "router"))

\* RouterOS refuses when one of the three files it is to embed is gone.
\* It may write the profile twice.
ExportProfile(p) ==
  LET Write(n) == \E ca \in CaExports :
        /\ files' = files \cup {[id |-> nextFile + i, kind |-> "ovpn", owner |-> p,
                                 ca |-> ca.ca] : i \in 0..(n - 1)}
        /\ nextFile' = nextFile + n
        /\ UNCHANGED cert
      next == [job[p] EXCEPT !.at = "identify"]
  IN /\ job[p].at = "profile"
     /\ IF CaExports # {} /\ Cardinality(Own(p, {"crt", "key"})) = 2
        THEN \/ SendOrFail(p, Write(1), next)
             \/ Write(2) /\ Becomes(p, next) /\ Mishap
        ELSE /\ Becomes(p, Failed(job[p], "router"))
             /\ UNCHANGED <<router, mishaps>>

\* Mutant: any new profile is taken for this call's.
MatchingAny(p) == {f \in files : f.kind = "ovpn" /\ f.id \notin job[p].since}

\* Profiles that are new since the baseline and embed this certificate.
Matching(p) == {f \in files : f.kind = "ovpn" /\ f.id \notin job[p].since /\ f.owner = p}

Identify(p) ==
  LET j == [job[p] EXCEPT !.taken = @ \cup Ids(Matching(p))] IN
  /\ job[p].at = "identify"
  /\ \/ \E f \in Matching(p) :
          /\ Matching(p) = {f}
          /\ Read(p, [j EXCEPT !.found = TRUE, !.profile = f, !.at = "verify"],
                  Failed(job[p], "router"))
     \/ /\ Cardinality(Matching(p)) # 1
        /\ Read(p, Failed(j, "router"), Failed(job[p], "router"))

\* The certificate record is read once more before the profile is returned.
Verify(p) ==
  /\ job[p].at = "verify"
  /\ Read(p, IF cert[p] = "trusted" THEN [job[p] EXCEPT !.at = "inventoryLeft"]
             ELSE Failed(job[p], "router"),
          Failed(job[p], "router"))

-----------------------------------------------------------------------------
(* The finally block.                                                      *)

\* Mutant: only exported files are looked for.
UnidentifiedExports(p) == job[p].named /\ ~(Ids(Own(p, {"crt", "key"})) \subseteq job[p].taken)

\* Files of this call that it cannot name by id: exported before their ids
\* were read, or profiles that appeared while its own was not identified.
Unidentified(p) ==
  \/ job[p].named /\ ~(Ids(Own(p, {"crt", "key"})) \subseteq job[p].taken)
  \/ /\ job[p].since # NoBaseline /\ ~job[p].found
     /\ \E f \in files : f.kind = "ovpn" /\ f.id \notin job[p].since \cup job[p].taken

InventoryLeft(p) ==
  LET next(unsafe) == [job[p] EXCEPT !.unsafe = unsafe, !.left = @ \cup job[p].taken,
                                     !.at = "dropFile"]
  IN /\ job[p].at = "inventoryLeft"
     /\ IF job[p].named \/ job[p].since # NoBaseline
        THEN Read(p, next(Unidentified(p)), next(TRUE))
        ELSE Becomes(p, next(FALSE)) /\ UNCHANGED <<router, mishaps>>

Ended(p, result) ==
  [Fresh EXCEPT !.profile = job[p].profile, !.result = result, !.at = "done"]

\* Files are deleted in the order their ids were noted.  When none is left,
\* a failure or an unsafe file also costs the certificate.
DropFile(p) ==
  /\ job[p].at = "dropFile"
  /\ \/ \E id \in job[p].left :
          LET next == [job[p] EXCEPT !.target = id, !.at = "goneFile"] IN
          /\ \A other \in job[p].left : id =< other
          /\ Send(p, Removed(id), next, next, Ended(p, "coordination"))
     \/ /\ job[p].left = {}
        /\ Becomes(p, IF job[p].unsafe \/ job[p].error # "none"
                      THEN [job[p] EXCEPT !.at = IF job[p].knows THEN "dropCert" ELSE "findCert"]
                      ELSE Ended(p, "profile"))
        /\ UNCHANGED <<router, mishaps>>

GoneFile(p) ==
  LET next == [job[p] EXCEPT !.left = @ \ {job[p].target}, !.at = "dropFile"] IN
  /\ job[p].at = "goneFile"
  /\ Read(p, [next EXCEPT !.unsafe = @ \/ job[p].target \in Ids(files)],
             [next EXCEPT !.unsafe = TRUE])

\* _remove_uncommitted_certificate, when the id was never learnt.
FindCert(p) ==
  /\ job[p].at = "findCert"
  /\ Read(p, [job[p] EXCEPT !.at = IF cert[p] = "none" THEN "goneCert" ELSE "dropCert"],
          Ended(p, "certRemains"))

DropCert(p) ==
  LET next == [job[p] EXCEPT !.at = "goneCert"] IN
  /\ job[p].at = "dropCert"
  /\ Send(p, CertBecomes(p, "none"), next, next, Ended(p, "coordination"))

GoneCert(p) ==
  /\ job[p].at = "goneCert"
  /\ Read(p, Ended(p, IF cert[p] # "none" THEN "certRemains"
                      ELSE IF job[p].unsafe THEN "filesRemain"
                      ELSE IF job[p].error = "coordination" THEN "coordination"
                      ELSE "failed"),
          Ended(p, "certRemains"))

-----------------------------------------------------------------------------
Body(p) ==
  \/ Create(p) \/ Locate(p) \/ Sign(p) \/ Trust(p) \/ Export(p) \/ Inventory(p)
  \/ FindCa(p) \/ DropCa(p) \/ GoneCa(p) \/ ExportCa(p) \/ ReadCa(p)
  \/ Baseline(p) \/ ExportProfile(p) \/ Identify(p) \/ Verify(p)

Cleanup(p) ==
  \/ InventoryLeft(p) \/ DropFile(p) \/ GoneFile(p)
  \/ FindCert(p) \/ DropCert(p) \/ GoneCert(p)

Next == \E p \in Provisioners : Body(p) \/ Cleanup(p)

Spec == Init /\ [][Next]_vars

-----------------------------------------------------------------------------
\* A returned profile embeds the certificate this call made, which the router
\* trusts, and the CA that is configured now (routeros.py:1290-1312, 1057).
ProfileIsOwn ==
  \A p \in Provisioners : job[p].result = "profile" =>
     /\ job[p].profile.owner = p /\ job[p].profile.ca = "current"
     /\ cert[p] = "trusted"

\* What each ending leaves behind is what it says: a plain failure leaves
\* neither certificate nor file, a failure that names files leaves no
\* certificate, and a success leaves no key or profile on the router
\* (routeros.py:1381-1447).
EndingsAreHonest ==
  \A p \in Provisioners :
     /\ job[p].result = "failed" => cert[p] = "none" /\ Own(p, {"crt", "key", "ovpn"}) = {}
     /\ job[p].result = "filesRemain" => cert[p] = "none"
     /\ job[p].result = "profile" => Own(p, {"crt", "key", "ovpn"}) = {}

\* No call removes a file another one made: only the shared CA export may
\* go under another call's hands (routeros.py:1316-1320, 1403-1406).
OthersFilesStandStep ==
  \A f \in files \ files' :
      f.kind = "ca" \/ job[f.owner] # job'[f.owner]
OthersFilesStand == [][OthersFilesStandStep]_vars
=============================================================================
