------------------------- MODULE SignatureVerification -------------------------
(***************************************************************************)
(* reader/signature: one verification after another in the life of the        *)
(* process.  A card offers a signature and a certificate; the certificate is   *)
(* loaded and perhaps normalised, its issuer is sought among the packaged      *)
(* anchors of one profile and generation, and ordered checks give the verdict. *)
(*                                                                           *)
(* What outlives a verification is certificate_encoding._metadata_registry:    *)
(* what a certificate was normalised from, under the address of the object it   *)
(* became.  Addresses of dead objects are used again.                          *)
(***************************************************************************)
EXTENDS Naturals, FiniteSets

CONSTANTS
  Manifest,   \* the packaged anchors: id -> [profile, generation, key, subject]
  Addresses,  \* where certificate objects may live
  MaxFlaws,   \* bound: how much is wrong with one card at a time
  None

Profiles    == {"production", "official_test"}
Generations == {"first", "second"}
Anchors     == DOMAIN Manifest

ASSUME ManifestAssumption ==
  /\ IsFiniteSet(Anchors)
  /\ \A a \in Anchors : Manifest[a].profile \in Profiles /\ Manifest[a].generation \in Generations
  /\ \A a \in Anchors : Manifest[a].key # None
  /\ None \notin Anchors
  /\ None \notin Addresses
  /\ MaxFlaws \in Nat

VARIABLES
  profile,     \* VERIFICATION_TRUST_PROFILE
  registry,    \* registry[x]: _metadata_registry's entry for the object at x
  at,          \* the next step
  generation,
  flaws,       \* what is wrong with the card's data, a subset of Flaws(generation)
  certificate, \* the card's certificate
  address,     \* where certificate_chain_metadata's object of it lives, or None
  store,       \* store[a]: the state of anchor a's packaged file
  path,        \* select_trust_path's TrustPath
  verdict      \* signature_status, "raised" for an exception, "none" before

card_vars == <<generation, flaws, certificate, store>>
vars == <<profile, registry, at, card_vars, address, path, verdict>>

Keys     == {Manifest[a].key : a \in Anchors}
Subjects == {Manifest[a].subject : a \in Anchors}

\* Exact DER; BER, CER or padded DER; an encoding with NULL ECDSA parameters, whose signed bytes
\* are not those of its normal form; not a certificate.
Forms == {"der", "ber", "null_parameters", "malformed"}
Certificates == [form : Forms, signer : Keys \cup {None}, issuer : Subjects \cup {None},
                 aki : Keys \cup {None}]
NoCertificate == [form |-> "malformed", signer |-> None, issuer |-> None, aki |-> None]

\* "own": original_tbs_certificate_bytes of this verification's certificate; "stale": of an
\* earlier one; "plain": an entry without them.
Entries == {"empty", "plain", "own", "stale"}
NoPath  == [status |-> "none", anchor |-> None]

\* The checks of verify_first_generation_signature(_file) and verify_rc2_signature before and
\* after the certificate's, in the code's order.
Before(g) == IF g = "first" THEN <<"bad_file", "no_signature", "no_certificate", "length">>
                            ELSE <<"disabled", "no_signature", "no_certificate">>
After(g) ==
  IF g = "first"
  THEN <<"expired", "not_yet_valid", "target_length", "unsupported_key", "key", "usage", "mismatch">>
  ELSE <<"expired", "not_yet_valid", "no_component", "unsupported_key", "key", "digest", "usage",
         "not_ecdsa", "mismatch">>

Named(checks) == {checks[i] : i \in DOMAIN checks}

\* Extensions that cannot be parsed: what the parser raises is a ValueError, or is not
\* (x509.DuplicateExtension).
Unparsed == {"bad_extensions", "raising_extensions"}
Flaws(g) == Named(Before(g)) \cup Named(After(g)) \cup Unparsed

\* What the failed check is reported as.  An unsupported public key raises in
\* verify_rc2_signature, and is caught in verify_first_generation_signature.
Status(g, flaw) ==
  CASE flaw = "disabled"        -> "skipped_by_config"
    [] flaw = "no_signature"    -> "missing_signature"
    [] flaw = "no_certificate"  -> "missing_certificate"
    [] flaw = "expired"         -> "certificate_expired"
    [] flaw = "not_yet_valid"   -> "certificate_not_yet_valid"
    [] flaw = "no_component"    -> "missing_signed_component"
    [] flaw \in {"key", "digest", "usage"}            -> "certificate_invalid"
    [] flaw \in {"length", "not_ecdsa", "mismatch"}   -> "signature_mismatch"
    [] flaw \in {"bad_file", "target_length"}         -> "verification_error"
    [] flaw = "unsupported_key" -> IF g = "first" THEN "verification_error" ELSE "raised"

Init ==
  /\ profile \in Profiles
  /\ registry = [x \in Addresses |-> "empty"]
  /\ at = "idle"
  /\ generation = "first"
  /\ flaws = {}
  /\ certificate = NoCertificate
  /\ address = None
  /\ store = [a \in Anchors |-> "ok"]
  /\ path = NoPath
  /\ verdict = "none"
-----------------------------------------------------------------------------
Conclude(status) == at' = "done" /\ verdict' = status

\* A card's data arrives: what the registry holds now is of earlier certificates.
Begin ==
  /\ at = "idle"
  /\ generation' \in Generations
  /\ flaws' \in {f \in SUBSET Flaws(generation') :
                   /\ Cardinality(f) <= MaxFlaws
                   /\ ~({"expired", "not_yet_valid"} \subseteq f)
                   /\ ~(Unparsed \subseteq f)}
  /\ registry' = [x \in Addresses |-> IF registry[x] = "own" THEN "stale" ELSE registry[x]]
  /\ at' = "presence"
  /\ UNCHANGED <<profile, certificate, store, address, path, verdict>>

Passes(checks) == Named(checks) \cap flaws = {}

\* The first check that fails: one element, or none if every check passes.
FirstFailure(checks) ==
  {checks[i] : i \in {k \in DOMAIN checks :
                        checks[k] \in flaws /\ \A j \in 1 .. k - 1 : checks[j] \notin flaws}}

CheckPresence ==
  /\ at = "presence"
  /\ \/ Passes(Before(generation)) /\ at' = "load" /\ UNCHANGED verdict
     \/ \E flaw \in FirstFailure(Before(generation)) : Conclude(Status(generation, flaw))
  /\ UNCHANGED <<profile, registry, card_vars, address, path>>

\* load_card_x509_certificate enters every object it returns, exact DER ones too.
LeavesExactDer(old, form) == IF form = "der" THEN old ELSE "own"
Entered(old, form) == IF form = "der" THEN "plain" ELSE "own"

LoadCertificate ==
  /\ at = "load"
  /\ certificate' \in Certificates
  /\ \/ /\ certificate'.form = "malformed"
        /\ Conclude("certificate_invalid")
        /\ UNCHANGED <<address, registry>>
     \/ /\ certificate'.form # "malformed"
        /\ \E x \in Addresses :
             /\ address' = x
             /\ registry' = [registry EXCEPT ![x] = Entered(@, certificate'.form)]
        /\ at' = "path"
        /\ UNCHANGED verdict
  /\ UNCHANGED <<profile, generation, flaws, store, path>>
-----------------------------------------------------------------------------
(* select_trust_path *)

\* First-generation cards are always verified under the production profile.
ProfileUsed == IF generation = "first" THEN "production" ELSE profile

AnyProfile(a) == Manifest[a].generation = generation
Permitted(a) == Manifest[a].profile = ProfileUsed /\ Manifest[a].generation = generation

\* load_anchor: the file is there, can be read and has the fingerprint the manifest records.
Fates == {"ok", "missing", "unreadable", "fingerprint_mismatch"}
LoadsUnchecked(a) == store'[a] # "missing"
Loads(a) == store'[a] = "ok"

Usable   == {a \in Anchors : Permitted(a) /\ Loads(a)}
Failures == {store'[a] : a \in {b \in Anchors : Permitted(b)}} \ {"ok"}

\* _candidate_anchors: narrowed by the issuer's name, then by the key identifier, each time
\* only if some anchor remains.
NarrowedAlways(candidates, matches) == matches
Narrowed(candidates, matches) == IF matches = {} THEN candidates ELSE matches
Candidates ==
  LET named == Narrowed(Usable, {a \in Usable : Manifest[a].subject = certificate.issuer})
  IN  Narrowed(named, {a \in named : Manifest[a].key = certificate.aki})

\* The bytes checked are the registry's for the object at address, else its normal form's.
SignedBytesKnown ==
  \/ registry[address] = "own"
  \/ registry[address] \in {"empty", "plain"} /\ certificate.form \in {"der", "ber"}

\* Extensions that cannot be parsed end the search before any anchor is tried.
Verified ==
  {a \in Candidates : /\ flaws \cap Unparsed = {}
                      /\ certificate.signer = Manifest[a].key /\ SignedBytesKnown}

WhyNone ==
  IF "bad_extensions" \in flaws THEN "missing"
  ELSE IF Cardinality(Verified) > 1 THEN "ambiguous"
  ELSE IF Usable # {} \/ Failures = {} THEN "untrusted"
  ELSE IF "fingerprint_mismatch" \in Failures THEN "fingerprint_mismatch" ELSE "missing"
TrustPath ==
  IF Cardinality(Verified) = 1
  THEN [status |-> "matched", anchor |-> CHOOSE a \in Verified : TRUE]
  ELSE [NoPath EXCEPT !.status = WhyNone]

\* What neither load_trust_anchors, select_trust_path nor their callers catch: the OSError of
\* one permitted anchor's file, and extensions that raise anything but a ValueError.
Raises ==
  \/ \E a \in Anchors : Permitted(a) /\ store'[a] = "unreadable"
  \/ "raising_extensions" \in flaws

\* The chain metadata and the checks of it; each anchor tried is loaded at some other address,
\* and the objects die when the function returns.
SelectPath ==
  /\ at = "path"
  /\ \E fates \in [{a \in Anchors : Permitted(a)} -> Fates] :
       store' = [a \in Anchors |-> IF a \in DOMAIN fates THEN fates[a] ELSE store[a]]
  /\ address' = None
  /\ \/ Raises /\ Conclude("raised") /\ UNCHANGED <<path, registry>>
     \/ /\ ~Raises
        /\ path' = TrustPath
        /\ \E used \in SUBSET (Addresses \ {address}) :
             /\ used = {} <=> Usable = {} \/ "bad_extensions" \in flaws
             /\ registry' = [x \in Addresses |-> IF x \in used THEN "plain" ELSE registry[x]]
        /\ \/ path'.status = "matched" /\ at' = "judge" /\ UNCHANGED verdict
           \/ path'.status = "fingerprint_mismatch" /\ Conclude("anchor_fingerprint_mismatch")
           \/ path'.status = "ambiguous" /\ Conclude("ambiguous_trust_path")
           \/ path'.status \in {"missing", "untrusted"} /\ Conclude("untrusted_certificate")
  /\ UNCHANGED <<profile, generation, flaws, certificate>>
-----------------------------------------------------------------------------
Success == IF ProfileUsed = "production" THEN "verified_production" ELSE "verified_official_test"

LoadAgain == \E x \in Addresses : registry' = [registry EXCEPT ![x] = Entered(@, certificate.form)]

\* The remaining checks; those after the dates and the target load the certificate again.
Judge ==
  /\ at = "judge"
  /\ \/ Passes(After(generation)) /\ Conclude(Success) /\ LoadAgain
     \/ \E flaw \in FirstFailure(After(generation)) :
          /\ Conclude(Status(generation, flaw))
          /\ IF flaw \in {"expired", "not_yet_valid", "no_component", "target_length"}
             THEN UNCHANGED registry
             ELSE LoadAgain
  /\ UNCHANGED <<profile, card_vars, address, path>>

Return ==
  /\ at = "done"
  /\ at' = "idle"
  /\ generation' = "first"
  /\ flaws' = {}
  /\ certificate' = NoCertificate
  /\ store' = [a \in Anchors |-> "ok"]
  /\ path' = NoPath
  /\ verdict' = "none"
  /\ UNCHANGED <<profile, registry, address>>

Next == Begin \/ CheckPresence \/ LoadCertificate \/ SelectPath \/ Judge \/ Return

Spec == Init /\ [][Next]_vars
-----------------------------------------------------------------------------
Refusals == {"skipped_by_config", "missing_signature", "missing_certificate", "certificate_invalid",
             "anchor_fingerprint_mismatch", "ambiguous_trust_path", "untrusted_certificate",
             "certificate_expired", "certificate_not_yet_valid", "missing_signed_component",
             "signature_mismatch", "verification_error", "raised"}
Successes == {"verified_production", "verified_official_test"}

\* The state's types; a path names an anchor exactly when it matched one.
TypeOK ==
  /\ profile \in Profiles
  /\ registry \in [Addresses -> Entries]
  /\ at \in {"idle", "presence", "load", "path", "judge", "done"}
  /\ generation \in Generations
  /\ flaws \subseteq Flaws(generation)
  /\ certificate \in Certificates
  /\ address \in Addresses \cup {None}
  /\ at = "path" => address # None
  /\ store \in [Anchors -> Fates]
  /\ path.status \in {"none", "matched", "ambiguous", "untrusted", "missing", "fingerprint_mismatch"}
  /\ path.anchor \in Anchors \cup {None}
  /\ path.status = "matched" <=> path.anchor # None
  /\ verdict \in Refusals \cup Successes \cup {"none"}

\* While a certificate is in use, the registry's entry for its object is its own, whatever was
\* verified before at the same address (get_certificate_metadata looks it up by id).
EntryIsOwn == at = "path" => registry[address] # "stale"

\* Verified is said only of data without a flaw, whose certificate was signed by an anchor of
\* the right profile and generation with the recorded fingerprint, and by no other candidate
\* (select_trust_path "Select exactly one cryptographically-valid issuer").
VerifiedIsSound ==
  verdict \in Successes =>
    /\ flaws = {}
    /\ certificate.form # "malformed"
    /\ path.anchor \in Anchors
    /\ store[path.anchor] = "ok"
    /\ Permitted(path.anchor)
    /\ Manifest[path.anchor].key = certificate.signer
    /\ \A a \in Anchors \ {path.anchor} :
         /\ Permitted(a) /\ store[a] = "ok" /\ Manifest[a].key = certificate.signer
         => Manifest[a].subject # Manifest[path.anchor].subject

Unreadable == \E a \in Anchors : Permitted(a) /\ store[a] = "unreadable"

\* Flawless data is verified if its certificate names the one anchor that signed it, whatever
\* the certificate's encoding, which other anchors are missing or altered and the cards before;
\* one permitted anchor that cannot be read ends it with an exception instead, the signer's or not.
GenuineIsVerified ==
  at = "done" /\ flaws = {} /\ certificate.form # "malformed" =>
    \A a \in Anchors :
      /\ Permitted(a) /\ store[a] = "ok"
      /\ certificate.signer = Manifest[a].key
      /\ certificate.issuer = Manifest[a].subject
      /\ certificate.aki \in {None, Manifest[a].key}
      /\ \A b \in Anchors \ {a} : Permitted(b) /\ store[b] = "ok" => Manifest[b].key # Manifest[a].key
      => verdict \in IF Unreadable THEN {"raised"} ELSE Successes

\* Official test material is never reported as production authenticity (SECURITY.md:30-31).
ProductionIsProduction ==
  verdict = "verified_production" => Manifest[path.anchor].profile = "production"
=============================================================================
