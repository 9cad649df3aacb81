---------------------- MODULE SignatureVerificationProofs ----------------------
(***************************************************************************)
(* Whatever anchors are packaged, whatever cards and certificates come one    *)
(* after another and wherever their objects live: a certificate is judged by   *)
(* its own registry entry, "verified" means verified, and the genuine is   *)
(* verified.                                                                  *)
(***************************************************************************)
EXTENDS SignatureVerification, FiniteSetTheorems, TLAPS

(* The inductive invariant: what each step has established is still so at the next one.  The
   registry is the subtle part: an entry of an earlier certificate may be anywhere except at the
   address of the object in use. *)
Checked == at \in {"load", "path", "judge"} => Passes(Before(generation))

Loaded ==
  at \in {"path", "judge"} => certificate.form # "malformed"

(* The issuer is permitted, loaded, signed the certificate, and is alone with its subject. *)
IssuerSound ==
  /\ path.anchor \in Anchors
  /\ store[path.anchor] = "ok"
  /\ Permitted(path.anchor)
  /\ Manifest[path.anchor].key = certificate.signer
  /\ \A a \in Anchors \ {path.anchor} :
       /\ Permitted(a) /\ store[a] = "ok" /\ Manifest[a].key = certificate.signer
       => Manifest[a].subject # Manifest[path.anchor].subject

Matched == at = "judge" => IssuerSound /\ flaws \cap Unparsed = {} /\ ~Unreadable

Unjudged == at # "done" => verdict = "none"

SuccessEarned == verdict \in Successes => verdict = Success

IInv == TypeOK /\ Checked /\ Loaded /\ Matched /\ Unjudged /\ SuccessEarned /\ EntryIsOwn /\ VerifiedIsSound

\* A check that fails is one of the checks listed, and reported as a refusal.
LEMMA FailuresAreListed ==
  ASSUME NEW checks, NEW flaw \in FirstFailure(checks)
  PROVE  flaw \in Named(checks) /\ flaw \in flaws
BY DEF FirstFailure, Named

\* The status of a check that failed is a refusal.
LEMMA StatusRefuses ==
  ASSUME NEW g \in Generations, NEW flaw \in Named(Before(g)) \cup Named(After(g))
  PROVE  Status(g, flaw) \in Refusals
<1>1. CASE g = "first"
  <2>1. flaw \in {"bad_file", "no_signature", "no_certificate", "length", "expired", "not_yet_valid",
                  "target_length", "unsupported_key", "key", "usage", "mismatch"}
    BY <1>1 DEF Named, Before, After
  <2> QED
    BY <1>1, <2>1 DEF Status, Refusals
<1>2. CASE g = "second"
  <2>1. flaw \in {"disabled", "no_signature", "no_certificate", "expired", "not_yet_valid",
                  "no_component", "unsupported_key", "key", "digest", "usage", "not_ecdsa", "mismatch"}
    BY <1>2 DEF Named, Before, After
  <2> QED
    BY <1>2, <2>1 DEF Status, Refusals
<1> QED
  BY <1>1, <1>2 DEF Generations

\* A failed check concludes with a refusal.
LEMMA RefusesOnFailure ==
  ASSUME TypeOK, NEW flaw \in FirstFailure(Before(generation)) \cup FirstFailure(After(generation))
  PROVE  Status(generation, flaw) \in Refusals
BY FailuresAreListed, StatusRefuses DEF TypeOK

\* Without a failed check there is no flaw.
LEMMA AllPassed ==
  ASSUME TypeOK, Passes(Before(generation)), Passes(After(generation)), flaws \cap Unparsed = {}
  PROVE  flaws = {}
BY DEF TypeOK, Passes, Flaws

\* No verdict is both a refusal and a success.
LEMMA Disjoint == Refusals \cap Successes = {} /\ "none" \notin Refusals \cup Successes
BY DEF Refusals, Successes

\* The anchors considered, and the single one that verified.
LEMMA CandidatesAreUsable == Candidates \subseteq Usable
BY DEF Candidates, Narrowed

\* A usable anchor is a permitted one whose certificate loads.
LEMMA UsableAnchor ==
  ASSUME NEW a \in Usable
  PROVE  a \in Anchors /\ Permitted(a) /\ store'[a] = "ok"
BY DEF Usable, Loads

\* Narrowing keeps together the anchors of one subject and one key.
LEMMA SameIssuerStays ==
  ASSUME NEW a \in Verified, NEW b \in Usable,
         Manifest[a].key = Manifest[b].key, Manifest[a].subject = Manifest[b].subject
  PROVE  b \in Verified
BY DEF Verified, Candidates, Narrowed

\* The path found: an anchor exactly when it matched, and then the only one that verified.
LEMMA PathFound ==
  /\ TrustPath.status \in {"matched", "ambiguous", "untrusted", "missing", "fingerprint_mismatch"}
  /\ TrustPath.status = "matched" => Verified = {TrustPath.anchor} /\ TrustPath.anchor \in Anchors
  /\ TrustPath.status # "matched" => TrustPath.anchor = None
<1>1. Verified \subseteq Anchors /\ IsFiniteSet(Verified)
  <2>1. Verified \in SUBSET Anchors
    BY CandidatesAreUsable, UsableAnchor DEF Verified
  <2> QED
    BY <2>1, FS_Subset, ManifestAssumption
<1>2. CASE Cardinality(Verified) = 1
  <2>1. PICK a : Verified = {a}
    BY <1>1, <1>2, FS_Singleton
  <2>2. (CHOOSE x \in Verified : TRUE) = a
    BY <2>1
  <2> QED
    BY <1>1, <1>2, <2>1, <2>2 DEF TrustPath
<1>3. CASE Cardinality(Verified) # 1
  BY <1>3 DEF TrustPath, WhyNone, NoPath
<1> QED
  BY <1>2, <1>3

\* The invariant holds before the first verification.
LEMMA InitIInv == Init => IInv
BY ManifestAssumption DEF Init, IInv, TypeOK, Checked, Loaded, Matched, Unjudged, SuccessEarned, EntryIsOwn,
   VerifiedIsSound, NoPath, NoCertificate, Certificates, Forms, Entries, Fates, Generations, Successes

\* The types, action by action.
LEMMA TypeStep == TypeOK /\ Next => TypeOK'
<1> SUFFICES ASSUME TypeOK, Next PROVE TypeOK'
  OBVIOUS
<1> USE DEF TypeOK, card_vars
<1>1. CASE Begin
  BY <1>1 DEF Begin, Entries
<1>2. CASE CheckPresence
  BY <1>2, RefusesOnFailure DEF CheckPresence, Conclude
<1>3. CASE LoadCertificate
  BY <1>3, ManifestAssumption DEF LoadCertificate, Conclude, Entered, Entries, Refusals
<1>4. CASE SelectPath
  <2>1. store' \in [Anchors -> Fates]
    BY <1>4 DEF SelectPath, Fates
  <2>2. registry' \in [Addresses -> Entries]
    BY <1>4 DEF SelectPath, Entries
  <2>3. /\ path'.status \in {"none", "matched", "ambiguous", "untrusted", "missing",
                              "fingerprint_mismatch"}
        /\ path'.anchor \in Anchors \cup {None}
        /\ path'.status = "matched" <=> path'.anchor # None
    BY <1>4, PathFound, ManifestAssumption DEF SelectPath
  <2>4. verdict' \in Refusals \cup Successes \cup {"none"} /\ at' \in {"judge", "done"}
    BY <1>4 DEF SelectPath, Conclude, Refusals
  <2> QED
    BY <1>4, <2>1, <2>2, <2>3, <2>4 DEF SelectPath
<1>5. CASE Judge
  <2>1. registry' \in [Addresses -> Entries]
    BY <1>5 DEF Judge, LoadAgain, Entered, Entries
  <2>2. verdict' \in Refusals \cup Successes \cup {"none"} /\ at' = "done"
    BY <1>5, RefusesOnFailure DEF Judge, Conclude, Success, Successes
  <2> QED
    BY <1>5, <2>1, <2>2 DEF Judge
<1>6. CASE Return
  BY <1>6, ManifestAssumption DEF Return, NoPath, NoCertificate, Certificates, Forms, Fates, Generations
<1> QED
  BY <1>1, <1>2, <1>3, <1>4, <1>5, <1>6 DEF Next

\* The trust path found is sound: its anchor is the only one of its subject that signed.
LEMMA SelectedIssuerIsSound ==
  ASSUME TypeOK, SelectPath, ~Raises, path'.status = "matched"
  PROVE  IssuerSound' /\ flaws \cap Unparsed = {} /\ ~Unreadable'
<1>1. /\ Verified = {path'.anchor} /\ path'.anchor \in Anchors
      /\ UNCHANGED <<profile, generation, flaws, certificate>>
  BY PathFound DEF SelectPath
<1>2. path'.anchor \in Usable
  BY <1>1, CandidatesAreUsable DEF Verified
<1>3. /\ store'[path'.anchor] = "ok" /\ Permitted(path'.anchor)
      /\ Manifest[path'.anchor].key = certificate.signer
      /\ flaws \cap Unparsed = {}
  BY <1>1, <1>2, UsableAnchor DEF Verified
<1>4. ASSUME NEW a \in Anchors \ {path'.anchor},
             Permitted(a), store'[a] = "ok", Manifest[a].key = certificate.signer
      PROVE  Manifest[a].subject # Manifest[path'.anchor].subject
  <2>1. a \in Usable
    BY <1>4 DEF Usable, Loads
  <2> QED
    BY <1>1, <1>3, <1>4, <2>1, SameIssuerStays
<1>5. \A a \in Anchors : Permitted(a)' <=> Permitted(a)
  BY <1>1 DEF Permitted, ProfileUsed
<1>6. ~Unreadable'
  BY <1>5 DEF Raises, Unreadable
<1> QED
  BY <1>1, <1>3, <1>4, <1>5, <1>6 DEF IssuerSound

\* The rest of the invariant, action by action.
LEMMA IInvStep == IInv /\ Next => IInv'
<1> SUFFICES ASSUME IInv, Next PROVE IInv'
  OBVIOUS
<1>0. TypeOK'
  BY TypeStep DEF IInv
<1> USE Disjoint DEF IInv, Checked, Loaded, Matched, Unjudged, SuccessEarned, EntryIsOwn, VerifiedIsSound, card_vars
<1>1. CASE Begin
  BY <1>0, <1>1 DEF Begin
<1>2. CASE CheckPresence
  BY <1>0, <1>2, RefusesOnFailure DEF CheckPresence, Conclude, Passes
<1>3. CASE LoadCertificate
  BY <1>0, <1>3 DEF LoadCertificate, Conclude, Entered, Refusals, TypeOK, Passes
<1>4. CASE SelectPath
  BY <1>0, <1>4, SelectedIssuerIsSound DEF SelectPath, Conclude, Refusals, Passes
<1>5. CASE Judge
  <2>1. at' = "done" /\ UNCHANGED <<profile, generation, flaws, certificate, store, path>>
    BY <1>5 DEF Judge, Conclude
  <2>2. verdict' \in Successes => verdict' = Success /\ flaws = {}
    BY <1>5, AllPassed, RefusesOnFailure DEF Judge, Conclude
  <2>3. Success' = Success /\ \A a \in Anchors : Permitted(a)' <=> Permitted(a)
    BY <2>1 DEF Success, Permitted, ProfileUsed
  <2> QED
    BY <1>0, <1>5, <2>1, <2>2, <2>3 DEF Judge, IssuerSound
<1>6. CASE Return
  BY <1>0, <1>6 DEF Return
<1> QED
  BY <1>1, <1>2, <1>3, <1>4, <1>5, <1>6 DEF Next

\* A step that changes nothing keeps it.
LEMMA IInvStutter == IInv /\ UNCHANGED vars => IInv'
BY DEF IInv, TypeOK, Checked, Loaded, Matched, Unjudged, SuccessEarned, EntryIsOwn, VerifiedIsSound, IssuerSound,
   Unreadable, Passes, Success, Permitted, ProfileUsed, vars, card_vars

\* The invariant holds throughout.
LEMMA Invariance == Spec => []IInv
<1>1. IInv /\ [Next]_vars => IInv'
  BY IInvStep, IInvStutter
<1> QED
  BY <1>1, InitIInv, PTL DEF Spec

\* The registry, keyed by addresses that are used again, never attributes to a certificate in use
\* what was recorded of another (get_certificate_metadata).
THEOREM RegistryNeverStale == Spec => []EntryIsOwn
<1>1. IInv => EntryIsOwn
  BY DEF IInv
<1> QED
  BY <1>1, Invariance, PTL

\* "Verified" is said of flawless data under exactly one permitted, intact anchor of its subject
\* (verify_rc2_signature, verify_first_generation_signature).
THEOREM VerifiedMeansVerified == Spec => []VerifiedIsSound
<1>1. IInv => VerifiedIsSound
  BY DEF IInv
<1> QED
  BY <1>1, Invariance, PTL

\* Production authenticity rests on a production anchor, for every manifest (SECURITY.md:30-31).
THEOREM TestIsNeverProduction == Spec => []ProductionIsProduction
<1>1. IInv => ProductionIsProduction
  <2> SUFFICES ASSUME IInv, verdict = "verified_production"
               PROVE  Manifest[path.anchor].profile = "production"
    BY DEF ProductionIsProduction
  <2>1. verdict \in Successes /\ ProfileUsed = "production"
    BY DEF IInv, SuccessEarned, Success, Successes
  <2> QED
    BY <2>1 DEF IInv, VerifiedIsSound, Permitted
<1> QED
  BY <1>1, Invariance, PTL

\* The state's types, for every manifest and any number of addresses.
THEOREM TypeCorrect == Spec => []TypeOK
<1>1. IInv => TypeOK
  BY DEF IInv
<1> QED
  BY <1>1, Invariance, PTL
-----------------------------------------------------------------------------
(* The other direction: what is genuine is verified. *)

\* What Genuine asks of the certificate: it names the one anchor in store that signed it.
NamesItsSigner(a) ==
  /\ Permitted(a) /\ store[a] = "ok"
  /\ certificate.signer = Manifest[a].key
  /\ certificate.issuer = Manifest[a].subject
  /\ certificate.aki \in {None, Manifest[a].key}
  /\ \A b \in Anchors \ {a} : Permitted(b) /\ store[b] = "ok" => Manifest[b].key # Manifest[a].key

\* The bytes that the certificate's signature is over can be had, whatever its encoding: its own
\* entry holds them, or its encoding is its normal form.
BytesAtHand == at = "path" => SignedBytesKnown

GenuineInv == BytesAtHand /\ GenuineIsVerified

\* The certificate's own bytes are at hand once it is loaded.
LEMMA LoadedBytes ==
  ASSUME IInv, LoadCertificate, at' = "path"
  PROVE  SignedBytesKnown'
<1>1. PICK x \in Addresses : /\ address' = x
                             /\ registry' = [registry EXCEPT ![x] = Entered(@, certificate'.form)]
  BY DEF LoadCertificate, Conclude
<1>2. registry'[address'] = Entered(registry[address'], certificate'.form)
  BY <1>1 DEF IInv, TypeOK
<1>3. certificate'.form = "der" => registry'[address'] = "plain"
  BY <1>2 DEF Entered
<1>4. certificate'.form # "der" => registry'[address'] = "own"
  BY <1>2 DEF Entered
<1> QED
  BY <1>3, <1>4 DEF SignedBytesKnown

\* Narrowing by name and by key identifier never loses the signer that the certificate names.
LEMMA SignerIsACandidate ==
  ASSUME NEW a \in Usable,
         certificate.issuer = Manifest[a].subject, certificate.aki \in {None, Manifest[a].key}
  PROVE  a \in Candidates
<1>1. \A b \in Anchors : Manifest[b].key # None
  BY ManifestAssumption
<1> DEFINE named == Narrowed(Usable, {b \in Usable : Manifest[b].subject = certificate.issuer})
<1>2. a \in named /\ named \subseteq Anchors
  BY DEF Narrowed, Usable
<1>3. Candidates = Narrowed(named, {b \in named : Manifest[b].key = certificate.aki})
  BY DEF Candidates
<1> HIDE DEF named
<1>4. CASE certificate.aki = None
  BY <1>1, <1>2, <1>3, <1>4 DEF Narrowed
<1>5. CASE certificate.aki = Manifest[a].key
  BY <1>2, <1>3, <1>5 DEF Narrowed
<1> QED
  BY <1>4, <1>5

\* A certificate that names the one anchor in store that signed it has a trust path, unless a
\* permitted anchor's file raises.
LEMMA GenuineHasAPath ==
  ASSUME IInv, BytesAtHand, SelectPath, flaws = {}, NEW a \in Anchors, NamesItsSigner(a)'
  PROVE  IF Unreadable' THEN at' = "done" /\ verdict' = "raised" ELSE at' = "judge"
<1>1. UNCHANGED <<profile, generation, flaws, certificate>> /\ at = "path"
  BY DEF SelectPath
<1>2. \A b \in Anchors : Permitted(b)' <=> Permitted(b)
  BY <1>1 DEF Permitted, ProfileUsed
<1>3. /\ Permitted(a) /\ store'[a] = "ok"
      /\ certificate.signer = Manifest[a].key
      /\ certificate.issuer = Manifest[a].subject
      /\ certificate.aki \in {None, Manifest[a].key}
      /\ \A b \in Anchors \ {a} : Permitted(b) /\ store'[b] = "ok" => Manifest[b].key # Manifest[a].key
  BY <1>1, <1>2 DEF NamesItsSigner
<1>4. a \in Usable /\ a \in Candidates
  <2>1. a \in Usable
    BY <1>3 DEF Usable, Loads
  <2> QED
    BY <1>3, <2>1, SignerIsACandidate
<1>5. a \in Verified
  BY <1>1, <1>3, <1>4 DEF Verified, BytesAtHand
<1>6. ASSUME NEW b \in Verified PROVE b = a
  <2>1. b \in Usable /\ Manifest[b].key = Manifest[a].key
    BY <1>3, <1>6, CandidatesAreUsable DEF Verified
  <2> QED
    BY <1>3, <2>1, UsableAnchor
<1>7. Verified = {a}
  BY <1>5, <1>6
<1>8. TrustPath.status = "matched"
  <2>1. Cardinality(Verified) = 1
    BY <1>7, FS_Singleton
  <2> QED
    BY <2>1 DEF TrustPath
<1>9. Unreadable' <=> Raises
  BY <1>2 DEF Unreadable, Raises
<1> QED
  BY <1>8, <1>9 DEF SelectPath, Conclude

\* Every step keeps it: a genuine card's data passes the checks before, finds its path, and
\* passes those after.
LEMMA GenuineStep == IInv /\ GenuineInv /\ [Next]_vars => GenuineInv'
<1> SUFFICES ASSUME IInv, GenuineInv, [Next]_vars PROVE GenuineInv'
  OBVIOUS
<1>0. \A checks : flaws = {} => FirstFailure(checks) = {}
  BY DEF FirstFailure
<1>1. CASE Begin \/ Return
  BY <1>1 DEF Begin, Return, GenuineInv, BytesAtHand, GenuineIsVerified
<1>2. CASE CheckPresence
  <2>1. at' = "done" => flaws # {}
    BY <1>0, <1>2 DEF CheckPresence, Conclude
  <2> QED
    BY <1>2, <2>1 DEF CheckPresence, Conclude, card_vars, GenuineInv, BytesAtHand, GenuineIsVerified
<1>3. CASE LoadCertificate
  <2>1. at' = "done" => certificate'.form = "malformed"
    BY <1>3 DEF LoadCertificate, Conclude
  <2> QED
    BY <1>3, <2>1, LoadedBytes DEF GenuineInv, BytesAtHand, GenuineIsVerified
<1>4. CASE SelectPath
  <2>1. at' # "path"
    BY <1>4 DEF SelectPath, Conclude
  <2>2. ASSUME at' = "done", flaws' = {}, NEW a \in Anchors, NamesItsSigner(a)'
        PROVE  Unreadable' /\ verdict' = "raised"
    <3>1. flaws = {}
      BY <1>4, <2>2 DEF SelectPath
    <3> QED
      BY <1>4, <2>2, <3>1, GenuineHasAPath DEF GenuineInv
  <2> QED
    BY <2>1, <2>2 DEF GenuineInv, BytesAtHand, GenuineIsVerified, NamesItsSigner
<1>5. CASE Judge
  <2>1. flaws = {} => verdict' = Success
    BY <1>0, <1>5 DEF Judge, Conclude
  <2>2. at' = "done" /\ flaws' = flaws
    BY <1>5 DEF Judge, Conclude, card_vars
  <2>3. ~Unreadable'
    BY <1>5 DEF Judge, card_vars, IInv, Matched, Unreadable, Permitted, ProfileUsed
  <2> QED
    BY <2>1, <2>2, <2>3 DEF GenuineInv, BytesAtHand, GenuineIsVerified, Success, Successes
<1>6. CASE UNCHANGED vars
  BY <1>6 DEF vars, card_vars, GenuineInv, BytesAtHand, SignedBytesKnown, GenuineIsVerified, Unreadable,
     Permitted, ProfileUsed
<1> QED
  BY <1>1, <1>2, <1>3, <1>4, <1>5, <1>6 DEF Next

\* Flawless data whose certificate names the one anchor that signed it is verified, whatever its
\* encoding, the other anchors missing or altered and the cards verified before at the same
\* address; it raises exactly if a permitted anchor's file cannot be read.
THEOREM GenuineAlwaysVerified == Spec => []GenuineIsVerified
<1>1. Init => GenuineInv
  BY DEF Init, GenuineInv, BytesAtHand, GenuineIsVerified
<1>2. GenuineInv => GenuineIsVerified
  BY DEF GenuineInv
<1> QED
  BY <1>1, <1>2, GenuineStep, Invariance, PTL DEF Spec
=============================================================================
