---------------------------------- MODULE Tsa ----------------------------------
(***************************************************************************)
(* RFC 3161 timestamp tokens, go/internal/anchor/tsa.go.                   *)
(*                                                                         *)
(* A certificate is [name, key, issuer, eku, from, to]: name is what a     *)
(* signer identifier says of it (issuer name and serial number, or key     *)
(* id), issuer the key that really signed it, eku "time-stamping" when its *)
(* one critical purpose is that, "ca" when it may issue such certificates. *)
(* A token is a record                                                     *)
(*   status   "granted", "rejected", or "bare" without a response around it *)
(*   whole    its DER has the documented structure and nothing after it    *)
(*   tst      what is stamped: [algorithm, imprint, serial, time], time 0  *)
(*            for none                                                     *)
(*   certs    the certificates it carries, in order; sid names the signer's *)
(*   signers  the number of its SignerInfos                                *)
(*   attrs    the signed attributes [types, digests, ess]: the values given *)
(*            as content type and message digest, and for each ESS         *)
(*            attribute the list of the certificates that it names         *)
(*   hash     the digest algorithm; fits: the signature algorithm fits the *)
(*            signer's key; signature [by, over]                           *)
(***************************************************************************)
EXTENDS Naturals, Sequences, FiniteSetsExt

CONSTANTS
  TSARoots,   \* the pinned root certificates
  Now,        \* the time of the verification
  ClockSkew   \* the tolerance towards it

\* The digest of what is stamped.
digestOf(tst) == <<"sha", tst>>

\* The first certificate of that name; only one that is there can be the signer.
findSigner(t) ==
  LET named == {i \in DOMAIN t.certs : t.certs[i].name = t.sid} IN
  IF named = {} THEN [name |-> "none"] ELSE t.certs[Min(named)]

hashFor == {"sha256", "sha384", "sha512"}

\* Each of the three is there, and every one of them is right; of the certificates
\* that an ESS attribute names only the first is looked at.
checkSignedAttrs(t, signer) ==
  /\ t.attrs.types = {"TSTInfo"}
  /\ t.attrs.digests = {digestOf(t.tst)}
  /\ t.attrs.ess # {}
  /\ \A named \in t.attrs.ess : named # <<>> /\ named[1] = signer

checkCMSSignature(t, signer) ==
  t.fits /\ t.signature = [by |-> signer.key, over |-> t.attrs]

InForce(c, at) == c.from <= at /\ at <= c.to

\* With the keys of the pinned roots the set has those of all certificates that one of
\* its keys issued for a certificate authority; each is in force at that time.
VouchedFor(keys, t, at) ==
  /\ \A c \in TSARoots : InForce(c, at) => c.key \in keys
  /\ \A i \in DOMAIN t.certs : LET c == t.certs[i] IN
       c.eku = "ca" /\ InForce(c, at) /\ c.issuer \in keys => c.key \in keys

KeysOf(t) == {c.key : c \in TSARoots} \cup {t.certs[i].key : i \in DOMAIN t.certs}

\* Mutant: the signer's certificate is in force, whoever issued it.
ChainsAt_NoRoots(t, signer, at) == InForce(signer, at)

\* At the stamped time the signer's certificate is one that a pinned root issued, directly
\* or through certificates of the token, however many: in the least set of such keys.
ChainsAt(t, signer, at) ==
  /\ InForce(signer, at)
  /\ \A keys \in SUBSET KeysOf(t) : VouchedFor(keys, t, at) => signer.issuer \in keys

VerifyTimestamp(t, expected) ==
  /\ t.status # "rejected" /\ t.whole
  /\ t.tst.algorithm = "sha256" /\ t.tst.imprint = expected
  /\ t.tst.time # 0
  /\ t.signers = 1
  /\ t.hash \in hashFor
  /\ LET signer == findSigner(t) IN
     /\ signer.name # "none"
     /\ checkSignedAttrs(t, signer)
     /\ checkCMSSignature(t, signer)
     /\ signer.eku = "time-stamping"
     /\ t.tst.time <= Now + ClockSkew
     /\ ChainsAt(t, signer, t.tst.time)
==============================================================================
