-------------------------------- MODULE Layout --------------------------------
(***************************************************************************)
(* What a bundle is as a zip of files, and the checks of                   *)
(* go/internal/bundle/verify.go and format.go that read no certificate:    *)
(* readZip, readManifest, checkFiles and checkCertificateList.             *)
(*                                                                         *)
(* A bundle b is a record:                                                 *)
(*   zip       what the archive reader makes of the file: "zip", "unsafe"  *)
(*             (ErrInsecurePath) or "unreadable"                           *)
(*   bytes     the size of the file                                        *)
(*   entries   its entries in order: [name, regular, declared, size,       *)
(*             opens, sha], where declared is the size the entry states,   *)
(*             size what reading it yields and sha its SHA-256             *)
(*   manifest  manifest.json: [strict, keys, format, version, decodes,     *)
(*             kind, conv, cust, listing, certs, digest, files]; certs     *)
(*             lists [path, req, id] and files lists [path, sha, size]     *)
(*   cert      the content of each certificate file (Certificates)         *)
(*   audit     the content of the audit/ folder (Counter)                  *)
(***************************************************************************)
EXTENDS Naturals, Sequences, FiniteSetsExt, Report

CONSTANTS
  CertFiles,                            \* names of the form certificates/*.json
  MaxBundleBytes, MaxFileBytes, MaxFiles

Manifest == "manifest.json"
RequiredPaths == {Manifest, "README.txt", "report-external.pdf"}
AuditPaths == {"audit/events.json", "audit/proofs.json", "audit/roots.json"}

AllowedPath(p) ==
  p \in RequiredPaths \cup {"verification.json", "report-internal.pdf"} \cup CertFiles
AllowedPathIn(version, p) == AllowedPath(p) \/ (version = 2 /\ p \in AuditPaths)
RequiredPathsIn(version) ==
  IF version = 2 THEN RequiredPaths \cup AuditPaths ELSE RequiredPaths

\* The layout is the one of the version the manifest names, read ahead of
\* everything else; anything but a readable 2 keeps the layout of version 1.
sniffFormatVersion(b) ==
  IF /\ \E i \in DOMAIN b.entries :
          /\ b.entries[i].name = Manifest
          /\ \A j \in 1 .. i - 1 : b.entries[j].name # Manifest
          /\ b.entries[i].opens
          /\ b.entries[i].declared <= MaxFileBytes /\ b.entries[i].size <= MaxFileBytes
     /\ b.manifest.strict /\ b.manifest.format /\ b.manifest.version = 2
  THEN 2 ELSE 1

Repeats(s, Key(_)) == \E i, j \in DOMAIN s : i < j /\ Key(s[i]) = Key(s[j])

\* The files of the bundle (a name determines its entry once readZip passed).
files(b) == {b.entries[i].name : i \in DOMAIN b.entries}
entry(b, p) == CHOOSE e \in {b.entries[i] : i \in DOMAIN b.entries} : e.name = p
contentBytes(b) ==
  MapThenSumSet(LAMBDA i : b.entries[i].size, DOMAIN b.entries)

ZipUnread(b) == b.bytes > MaxBundleBytes \/ b.zip = "unreadable"

ZipProblem(b) ==
  \/ b.zip = "unsafe" \/ Len(b.entries) > MaxFiles
  \/ \E i \in DOMAIN b.entries : LET e == b.entries[i] IN
       \/ ~AllowedPathIn(sniffFormatVersion(b), e.name)
       \/ ~e.regular \/ ~e.opens
       \/ e.declared > MaxFileBytes \/ e.size > MaxFileBytes
  \/ Repeats(b.entries, LAMBDA e : e.name)
  \/ contentBytes(b) > MaxBundleBytes

readZip(b) ==
  IF ZipUnread(b) THEN skip(Bundle, "structure", TRUE)
  ELSE IF ZipProblem(b) THEN fail(Bundle, "structure") ELSE pass(Bundle, "structure")

\* readManifest stops without a PASS step when the manifest is readable:
\* checkFiles reports for both.
ManifestProblem(b) ==
  \/ Manifest \notin files(b) \/ ~b.manifest.strict \/ ~b.manifest.keys
  \/ /\ b.manifest.format /\ b.manifest.version \in {1, 2}
     /\ ~b.manifest.decodes \/ ~b.manifest.kind

ManifestUnknown(b) == ~b.manifest.format \/ b.manifest.version \notin {1, 2}

\* Mutant: only the listed files are checked, never that all files are listed.
FilesProblem_Unlisted(b) ==
  LET m == b.manifest IN
  \/ ~(RequiredPathsIn(m.version) \subseteq files(b))
  \/ \E f \in {m.files[i] : i \in DOMAIN m.files} :
       \/ f.path = Manifest \/ f.path \notin files(b)
       \/ entry(b, f.path).sha # f.sha

FilesProblem(b) ==
  LET m == b.manifest listed == {m.files[i].path : i \in DOMAIN m.files} IN
  \/ ~(RequiredPathsIn(m.version) \subseteq files(b))
  \/ \E i \in DOMAIN m.files : LET f == m.files[i] IN
       \/ f.path = Manifest \/ ~AllowedPathIn(m.version, f.path)
       \/ f.path \notin files(b)
       \/ entry(b, f.path).sha # f.sha \/ entry(b, f.path).size # f.size
  \/ Repeats(m.files, LAMBDA f : f.path)
  \/ ~(files(b) \ {Manifest} \subseteq listed)

CertificateListProblem(b) ==
  LET certs == b.manifest.certs IN
  \/ \E i \in DOMAIN certs :
       \/ certs[i].path \notin CertFiles \cap files(b)
       \/ certs[i].req = "" \/ certs[i].id = ""
  \/ Repeats(certs, LAMBDA c : c.path) \/ Repeats(certs, LAMBDA c : c.req)
  \/ ~(files(b) \cap CertFiles \subseteq {certs[i].path : i \in DOMAIN certs})
  \/ certs = <<>>

\* certificates_digest is a hash over the files' digests by request id.
CertificatesDigest(b) ==
  {<<c.req, entry(b, c.path).sha>> : c \in {b.manifest.certs[i] : i \in DOMAIN b.manifest.certs}}

CertificateSet(b) ==
  IF b.manifest.digest = CertificatesDigest(b)
  THEN pass(Bundle, "certificate-set") ELSE fail(Bundle, "certificate-set")

Completeness(b) == skip(Bundle, "completeness", b.manifest.listing # "exhausted")
==============================================================================
