-------------------------------- MODULE Loading --------------------------------
(***************************************************************************)
(* The sec-certs loaders of the mirror (packages/mirror/src/loaders/       *)
(* seccerts*.ts, ppAliases.ts, maintenance.ts): from the weekly export to  *)
(* the bundle the emit layer plans from.                                   *)
(*                                                                         *)
(* A text of the export is a number, so that the order of the texts is the *)
(* order of the numbers; what the code reads off the spelling of a text is *)
(* a constant.  The printed ids of one protection profile are numbered     *)
(* longest first.  A field no property tells apart is left out.            *)
(***************************************************************************)
EXTENDS Events

CONSTANTS
  None,
  Spaced,      \* the texts with a whitespace character inside
  Digitless,   \* the texts without a digit
  Digest,      \* the texts of 16 hex digits: record digests
  Unlabelled,  \* a printed id -> the id without the printed label before it
  Unspaced,    \* a printed id -> the id without whitespace
  Tidy,        \* a profile token -> its tidied form (tidyPpToken)
  Akey,        \* a profile token -> its lookup key (akey)
  Bare,        \* a lookup key -> the key without MA<n> or M<n> at its end
  Prose,       \* the profile tokens that are descriptors, not ids (isProseAlias)
  FamilyOf,    \* an algorithm token -> its closed-list family, by priority, or None
  CavpOf,      \* a raw CAVP reference -> its normalized form, or None
  MaxFamilies, \* the families a record keeps: 10
  MaxRefs      \* the direct references a record keeps: 64

Sorted(set) == SetToSortSeq(set, <)

FirstOf(seq, n) == SubSeq(seq, 1, IF Len(seq) < n THEN Len(seq) ELSE n)

\* Records without a digest are skipped.
Keyed(docs) == SelectSeq(docs, LAMBDA doc : doc.dgst # None)

-----------------------------------------------------------------------------
(* The alias table of the protection profiles (ppAliases.ts) *)

\* kvar
Variants(token) ==
  LET key == Akey[token] IN IF Bare[key] = key THEN <<key>> ELSE <<key, Bare[key]>>

\* The most frequent own keyword, the first of them on a tie.
KwOwn(doc) ==
  LET best == {i \in DOMAIN doc.own : \A j \in DOMAIN doc.own :
                 IF j < i THEN doc.own[j].count < doc.own[i].count
                          ELSE doc.own[j].count <= doc.own[i].count}
  IN {doc.own[i].token : i \in best}

CandidateIds(doc) == IF doc.links # {} THEN doc.links ELSE KwOwn(doc)

PrintedAliases(doc) == Sorted({Unspaced[id] : id \in CandidateIds(doc)})

\* The records that claim a lookup key.
Claimants(docs, key) ==
  {doc.dgst : doc \in {d \in ToSet(docs) :
     /\ d.dgst # None
     /\ \E id \in CandidateIds(d) : key \in ToSet(Variants(id))}}

\* A key that several records claim resolves to none of them.
Hit(docs, key) ==
  LET claimants == Claimants(docs, key)
  IN IF Cardinality(claimants) = 1 THEN CHOOSE d \in claimants : TRUE ELSE None

PpResolve(docs, token) ==
  LET hits == SelectSeq(Mapped(LAMBDA key : Hit(docs, key), Variants(token)), LAMBDA d : d # None)
  IN IF hits = <<>> THEN None ELSE Head(hits)

-----------------------------------------------------------------------------
(* What the records of several corpora share (seccerts-common.ts) *)

\* An id that has whitespace once its label is gone cannot be a tag.
CanonicalCertId(text) ==
  IF text = None \/ Unlabelled[text] \in Spaced THEN None ELSE Unlabelled[text]

\* The classes of a record's CVEs: a direct one is not transitive as well.
ExtractCertCves(doc) ==
  LET direct == Deduped(doc.related)
      transitive == SelectSeq(Deduped(doc.transitive), LAMBDA cve : cve \notin ToSet(direct))
      Cves(cls, list) == Mapped(LAMBDA cve : [cve |-> cve, cls |-> cls], list)
  IN Cves("direct", direct) \o Cves("transitive", transitive)

AlgFamilies(doc) ==
  FirstOf(Sorted({FamilyOf[token] : token \in doc.algs} \ {None}), MaxFamilies)

CavpRefs(doc) == Sorted({CavpOf[raw] : raw \in doc.cavps} \ {None})

\* The references of a record, the digests among them replaced by the ids of the
\* records they name.
NormalizeDirectRefs(doc, idOf) ==
  LET refs == {IF v \notin Digest THEN CanonicalCertId(v)
               ELSE IF v \in DOMAIN idOf THEN idOf[v] ELSE None : v \in doc.refs} \ {None}
  IN [refs |-> FirstOf(Sorted(refs), MaxRefs), truncated |-> Cardinality(refs) > MaxRefs]

\* What `Id` makes of the records; a later record overwrites an earlier one.
IdsOf(docs, Id(_)) ==
  [d \in {doc.dgst : doc \in ToSet(docs)} |->
    Id(docs[CHOOSE i \in DOMAIN docs :
              docs[i].dgst = d /\ \A j \in DOMAIN docs : docs[j].dgst = d => j <= i])]

-----------------------------------------------------------------------------
(* The corpora *)

\* The most frequent keyword that can be a printed id, the least of them on a tie.
DominantKeywordCertId(counts) ==
  LET eligible == DOMAIN counts \ (Spaced \cup Digitless)
      most == {t \in eligible : \A u \in eligible : counts[u] <= counts[t]}
  IN IF eligible = {} THEN None ELSE Head(Sorted(most))

ResolvePpRefs(doc, pps, profiles) ==
  LET hits == {PpResolve(pps, token) : token \in doc.tokens} \ {None}
      unresolved == {token \in doc.tokens \ Prose : PpResolve(pps, token) = None}
  IN [resolved |-> Sorted(profiles \cup hits),
      unresolved |-> Sorted({Tidy[token] : token \in unresolved})]

\* What loadCc and loadEucc make of a record but for what they differ in.
CertRecord(doc, corpus, certId, pp, direct, snapshot) ==
  [corpus |-> corpus, sourceId |-> doc.dgst, name |-> doc.name, vendor |-> doc.vendor,
   scheme |-> doc.scheme, eal |-> doc.eal, certId |-> certId, certLink |-> doc.certLink,
   ppRefsResolved |-> pp.resolved, ppRefsUnresolved |-> pp.unresolved,
   directRefs |-> direct.refs, truncated |-> direct.truncated,
   cves |-> ExtractCertCves(doc), algFamilies |-> AlgFamilies(doc),
   cpeMatches |-> doc.cpes, maintenance |-> doc.updates, artifacts |-> doc.artifacts,
   snapshot |-> snapshot]

LoadCc(data) ==
  LET docs == Keyed(data.cc)
      idOf == IdsOf(docs, LAMBDA doc : CanonicalCertId(doc.heuristicId))
      Load(doc) ==
        LET id == CanonicalCertId(doc.heuristicId)
        IN CertRecord(doc, "cc",
             IF id = None THEN DominantKeywordCertId(doc.keywordIds) ELSE id,
             ResolvePpRefs(doc, data.pp, doc.profiles),
             NormalizeDirectRefs(doc, idOf), data.snapshot)
  IN Mapped(Load, docs)

\* The printed id is taken as it is; there are no maintenance updates and no profile
\* digests.
LoadEucc(data) ==
  LET docs == Keyed(data.eucc)
      idOf == IdsOf(docs, LAMBDA doc : doc.heuristicId)
      Load(doc) ==
        CertRecord([doc EXCEPT !.updates = <<>>], "eucc", doc.certId,
          ResolvePpRefs(doc, data.pp, {}), NormalizeDirectRefs(doc, idOf), data.snapshot)
  IN Mapped(Load, docs)

\* `fips:<standard>-<number>`
FipsId(standard, number) == 1000 * standard + number

LoadFips(data) ==
  LET docs == Keyed(data.fips)
      \* the last record of a number says which standard the number is of
      StandardOf(number) ==
        LET of == SelectSeq(data.fips, LAMBDA doc : doc.certId = number)
        IN IF of = <<>> THEN None ELSE Last(of).standard
      Load(doc) ==
        [corpus |-> "fips", sourceId |-> doc.dgst, fipsId |-> FipsId(doc.standard, doc.certId),
         name |-> doc.name, vendor |-> doc.vendor, cavpRefs |-> CavpRefs(doc),
         algFamilies |-> AlgFamilies(doc), cves |-> ExtractCertCves(doc),
         directRefs |->
           Deduped(Mapped(LAMBDA number : FipsId(StandardOf(number), number),
                          SelectSeq(doc.refs, LAMBDA number : StandardOf(number) # None))),
         policy |-> doc.policy, snapshot |-> data.snapshot]
  IN Mapped(Load, docs)

\* The alias table is built from every record, also one without a name.
LoadPp(data) ==
  Mapped(LAMBDA doc : [corpus |-> "pp", sourceId |-> doc.dgst, name |-> doc.name,
                       scheme |-> doc.scheme, printedAliases |-> PrintedAliases(doc),
                       link |-> doc.link, snapshot |-> data.snapshot],
         SelectSeq(Keyed(data.pp), LAMBDA doc : doc.name # None))

LoadMaintenance(data) ==
  Mapped(LAMBDA doc : [sourceId |-> doc.dgst, parentDgst |-> doc.parent,
                       cves |-> Sorted(ToSet(doc.cves)), snapshot |-> data.snapshot],
         Keyed(data.maintenance))

\* The certificate a card is linked to: the seeded one, or the first that is certain.
PickedRow(card) ==
  LET certain == SelectSeq(card.candidates, LAMBDA c : c.high)
  IN CASE card.seeded # None -> card.seeded
       [] card.seeded = None /\ certain # <<>> -> Head(certain).dgst
       [] OTHER -> None

\* A card with nothing to be recognized by is skipped; the pairs are not deduped.
LoadCrosslinks(data) ==
  Mapped(LAMBDA card : [cardKey |-> card.anchor, certDgst |-> PickedRow(card)],
         SelectSeq(data.cards, LAMBDA card : PickedRow(card) # None /\ card.anchor # None))

LoadSeccerts(data) ==
  [cc |-> LoadCc(data), eucc |-> LoadEucc(data), pp |-> LoadPp(data), fips |-> LoadFips(data),
   maintenance |-> LoadMaintenance(data), crosslinks |-> LoadCrosslinks(data),
   corp |-> <<"cc", "eucc", "pp", "fips">>, snapshot |-> data.snapshot]
=============================================================================
