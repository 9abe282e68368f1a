------------------------------ MODULE Selection ------------------------------
(***************************************************************************)
(* How a request (languages and capabilities of one release) is resolved   *)
(* to packs and components (data/selection.py), and the identity of the    *)
(* activation record built from it (data/activation.py).                   *)
(*                                                                         *)
(* A component is stood for by its digest: the store, the record and the   *)
(* activation id know it by nothing else.  A release is the pair (dataset  *)
(* version, manifest hash); releases are immutable, so one determines the  *)
(* other.  Hashes are taken to be injective.                               *)
(***************************************************************************)


CONSTANTS
  Release,       \* the releases a user can install from
  Language,      \* normalised language tags, known to a release or not
  Tag,           \* what a user may write for a language: these, and other forms
  NormalOf,      \* normalize_language: the language a tag stands for
  Capability,    \* the requestable capabilities
  Core,          \* the capability of the always installed packs
  Digest,        \* component digests
  Manifest,      \* Manifest[r] is the set of packs release r declares
  AllLanguages   \* stands for languages=None, a request that names none

PackType == [capability : Capability \cup {Core},
             languages  : SUBSET Language,
             components : SUBSET Digest,
             required   : BOOLEAN]

(* What _parse_packs enforces: every pack has a component, every pack but a *)
(* core pack serves a language, core packs are required, and exactly one    *)
(* pack may serve a (capability, language) pair.                            *)
ASSUME ManifestAssumption ==
  /\ Core \notin Capability
  /\ Language \subseteq Tag
  /\ NormalOf \in [Tag -> Language]
  /\ \A l \in Language : NormalOf[l] = l
  /\ AllLanguages \notin SUBSET Tag
  /\ Manifest \in [Release -> SUBSET PackType]
  /\ \A r \in Release :
       /\ \E p \in Manifest[r] : p.capability = Core
       /\ \A p \in Manifest[r] :
            /\ p.components # {}
            /\ p.capability = Core => p.required
            /\ p.capability # Core => p.languages # {}
       /\ \A p, q \in Manifest[r] :
            p.capability = q.capability /\ p.languages \cap q.languages # {}
               => p = q

(* The request an activation record retains ("requested" in to_dict), with *)
(* the languages as the user wrote them.  The rest of the record is        *)
(* derived from it when the record is built.                               *)
Request == [release      : Release,
            languages    : (SUBSET Tag) \cup {AllLanguages},
            capabilities : SUBSET Capability]

ActivationId == [release : Release, components : SUBSET Digest]
-----------------------------------------------------------------------------
RequiredPacks(r) == {p \in Manifest[r] : p.required}

LanguagesFor(r, c) ==
  UNION {p.languages : p \in {k \in Manifest[r] : k.capability = c}}

ManifestLanguages(r) == UNION {p.languages : p \in Manifest[r]}

PackFor(r, c, l) ==
  {p \in Manifest[r] : p.capability = c /\ l \in p.languages}

Normalized(tags) == {NormalOf[t] : t \in tags}

(* The languages resolve() walks for one capability. *)
Wanted(q, c) ==
  IF q.languages = AllLanguages THEN LanguagesFor(q.release, c)
                                ELSE Normalized(q.languages)

(* Languages a strict request is refused for. *)
UnknownLanguages(q) ==
  IF q.languages = AllLanguages
  THEN {} ELSE Normalized(q.languages) \ ManifestLanguages(q.release)

ServedPacks(q) ==
  UNION {UNION {PackFor(q.release, c, l) : l \in Wanted(q, c)} : c \in q.capabilities}

SelectedPacks(q) == RequiredPacks(q.release) \cup ServedPacks(q)

SelectedComponents(q) == UNION {p.components : p \in SelectedPacks(q)}

(* "effective" and "unavailable" of the selection, by capability. *)
Effective(q, c) == {l \in Wanted(q, c) : PackFor(q.release, c, l) # {}}
Unavailable(q, c) == {l \in Wanted(q, c) : PackFor(q.release, c, l) = {}}

(* The languages the runtime can route to: those of every selected pack,   *)
(* which may be more than were asked for (Activation.installed_languages). *)
InstalledLanguages(q, c) ==
  UNION {p.languages : p \in {k \in SelectedPacks(q) : k.capability = c}}

(* compute_activation_id hashes the release and the component digests, and *)
(* nothing of what was requested.                                          *)
IdOf(q) == [release |-> q.release, components |-> SelectedComponents(q)]
=============================================================================
