-------------------------------- MODULE Planning --------------------------------
(***************************************************************************)
(* The wanted state of the sec-certs mirror (packages/mirror/src/emit/     *)
(* seccerts/roots.ts, relations.ts, plan.ts): the roots and the relations  *)
(* a bundle stands for.                                                    *)
(*                                                                         *)
(* An i value is <<prefix, text>>.  A content is a sequence of lines, the  *)
(* record card last; a line is what it is about, the texts it shows and a  *)
(* number (of what it counts or clips), and stands for one or more bullets *)
(* of the code; the lines near the card are those of the code.  A root is  *)
(* named by <<corpus, source id, role>>, a relation by                     *)
(* <<corpus, kind, id, id>>.                                               *)
(***************************************************************************)
EXTENDS Loading

CONSTANTS
  TotalTagBudget, \* TOTAL_TAG_BUDGET: 60
  SoftCap,        \* RELAY_CONTENT_SOFT_CAP, in texts
  CertLadder,     \* the clips a certificate record is tried with, weakest first
  ToeLadder, ModuleLadder, FipsLadder,
  RocaCve

Present(seq) == SelectSeq(seq, LAMBDA x : x # None)

Value(prefix, text) == IF text = None THEN None ELSE <<prefix, text>>
Values(prefix, texts) == Mapped(LAMBDA text : <<prefix, text>>, texts)

Or(text, default) == IF text = None THEN default ELSE text

-----------------------------------------------------------------------------
(* Contents *)

\* The mark is that of a line of a diff; a blank one is how lines stand elsewhere.
Line(about, texts, number) ==
  [line |-> about, shows |-> Present(texts), number |-> number, mark |-> " "]

Blank == Line("blank", <<>>, 0)

\* A list of which only the first are shown, and how many are not.
Clipped(about, texts, cap) ==
  Line(about, FirstOf(texts, cap), Len(texts) - Len(FirstOf(texts, cap)))

\* composeContent: headline, bullets, links, and the record card last.
ComposeContent(headline, bullets, links, card) ==
  <<headline, Blank>> \o bullets
    \o (IF links = <<>> THEN <<>> ELSE <<Blank, Line("links", <<>>, 0)>> \o links)
    \o <<Blank, card>>

\* The record card; its numbers are no facts.
Card(texts, number) == Line("card", texts, number)

SizeOf(content) == FoldLeft(LAMBDA sum, line : sum + Len(line.shows), 0, content)

\* The content under the weakest clips it fits the soft cap with, or the strongest.
FirstFit(ladder, Assemble(_)) ==
  LET fits == {i \in DOMAIN ladder : SizeOf(Assemble(ladder[i])) <= SoftCap}
  IN Assemble(ladder[IF fits = {} THEN Len(ladder) ELSE Min(fits)])

Cves(record) == Mapped(LAMBDA c : c.cve, record.cves)

Facets(record) == IF RocaCve \in ToSet(Cves(record)) THEN {"sec-certs", "roca"} ELSE {"sec-certs"}

-----------------------------------------------------------------------------
(* The tag budget *)

\* A fault: the k tags are not counted.
Kindless(iSet, imeta) == Len(iSet) + 3 + imeta

\* evTagEstimate: the i values, their prefixes, three t tags and the imeta rows.
Estimate(iSet, imeta) ==
  Len(iSet) + Cardinality({iSet[i][1] : i \in DOMAIN iSet}) + 3 + imeta

Over(iSet, imeta) == Estimate(iSet, imeta) > TotalTagBudget

\* Elements popped off the end while the event is over budget, down to a floor.
Trimmed(list, floor, StillOver(_)) ==
  LET Prefix(n) == SubSeq(list, 1, n)
      enough == {n \in floor..Len(list) : ~StillOver(Prefix(n))}
  IN IF Len(list) <= floor THEN list ELSE Prefix(IF enough = {} THEN floor ELSE Max(enough))

Artifacts(record) == Cardinality(record.artifacts)

CertIdTag(record) == Value(record.corpus, record.certId)

CoreTags(record) == Present(<<CertIdTag(record)>> \o Values("pp", record.ppRefsResolved))

TailTags(record) ==
  Present(<<Value("eal", record.eal), Value("scheme", record.scheme), Value("vendor", record.vendor)>>
    \o Values("alg", record.algFamilies) \o Values("cpe", FirstOf(record.cpeMatches, 3))
    \o Values("cc", record.directRefs))

\* What is dropped from a certificate record, and in which order: unresolved
\* profiles, references, what stands after the families, families but two.
CertTags(record) ==
  LET core == CoreTags(record) tail == TailTags(record)
      OverWith(unresolved, rest) == Over(core \o unresolved \o rest, Artifacts(record))
      kept == Trimmed(Values("pp", record.ppRefsUnresolved), 0, LAMBDA list : OverWith(list, tail))
      noRefs == Trimmed(tail, Len(tail) - Len(record.directRefs), LAMBDA list : OverWith(kept, list))
      noCpes == Trimmed(noRefs, 3 + Len(record.algFamilies), LAMBDA list : OverWith(kept, list))
      fewAlgs == Trimmed(noCpes, 5, LAMBDA list : OverWith(kept, list))
  IN [core |-> core, unresolved |-> kept, tail |-> fewAlgs]

\* All the families go, then CAVP references, then cross references.
FipsTags(record) ==
  LET fixed == Present(<<<<"fips", record.fipsId>>, Value("vendor", record.vendor)>>)
      imeta == IF record.policy THEN 1 ELSE 0
      OverWith(algs, cavps, refs) == Over(fixed \o algs \o cavps \o refs, imeta)
      cavp == Values("cavp", record.cavpRefs) ref == Values("fips", record.directRefs)
      algs == IF OverWith(Values("alg", record.algFamilies), cavp, ref) THEN <<>>
              ELSE Values("alg", record.algFamilies)
      cavps == Trimmed(cavp, 0, LAMBDA list : OverWith(algs, list, ref))
      refs == Trimmed(ref, 0, LAMBDA list : OverWith(algs, cavps, list))
  IN fixed \o algs \o cavps \o refs

-----------------------------------------------------------------------------
(* The roots *)

Root(corpus, sourceId, role, iSet, facets, content, imeta) ==
  [key |-> <<corpus, sourceId, role>>, iSet |-> iSet, facets |-> facets,
   content |-> content, imeta |-> imeta]

CertLinks(record) ==
  <<Line("certificate link", <<record.certLink>>, 0),
    Line("provenance", <<record.snapshot, record.vendor>>, 0)>>

ToeRoot(record) ==
  LET Assemble(rung) ==
        ComposeContent(
          Line("headline", <<record.name, Or(record.certId, record.sourceId), record.scheme,
                             record.eal, record.sourceId, record.snapshot>>, 0),
          <<Line("vendor", <<record.vendor>>, 0),
            Line("maintenance", <<>>, Len(record.maintenance)),
            Line("lineage", record.directRefs, IF record.truncated THEN 1 ELSE 0),
            Clipped("cves", Cves(record), rung.cve),
            Clipped("cpes", record.cpeMatches, rung.cpe)>>,
          CertLinks(record),
          Card(<<record.sourceId, record.certId, record.scheme, record.eal, record.vendor>>
                 \o FirstOf(record.cpeMatches, rung.cpe) \o <<record.snapshot>>, 0))
  IN Root(record.corpus, record.sourceId, "product",
          Present(<<CertIdTag(record), Value("scheme", record.scheme), Value("vendor", record.vendor)>>),
          Facets(record), FirstFit(ToeLadder, Assemble), 0)

CertMetadataRoot(record, pps) ==
  LET tags == CertTags(record)
      dropped == Len(record.ppRefsUnresolved) - Len(tags.unresolved)
                   + Len(TailTags(record)) - Len(tags.tail)
      \* a resolved profile with a record is shown with its alias and its name
      PpPart(dgst) ==
        LET named == SelectSeq(pps, LAMBDA pp : pp.sourceId = dgst)
        IN IF named = <<>> THEN <<dgst>>
           ELSE Append(FirstOf(Last(named).printedAliases, 1), dgst) \o <<Last(named).name>>
      Assemble(rung) ==
        ComposeContent(
          Line("headline", <<Or(record.certId, record.sourceId), record.name, record.eal,
                             record.sourceId, record.scheme, record.snapshot>>, 0),
          <<Line("toe", <<record.name, record.vendor>>, 0),
            Line("profiles", FlattenSeq(Mapped(PpPart, record.ppRefsResolved)), 0),
            Line("unresolved profiles", record.ppRefsUnresolved, 0),
            Clipped("maintenance", record.maintenance, rung.maintenance),
            Line("lineage", record.directRefs, IF record.truncated THEN 1 ELSE 0),
            Clipped("cves", Cves(record), rung.cve),
            Clipped("cpes", record.cpeMatches, rung.cpe),
            Line("families", record.algFamilies, 0),
            Line("budget", <<>>, dropped)>>,
          CertLinks(record),
          Card(<<record.sourceId, record.certId, record.scheme, record.eal, record.vendor>>
                 \o record.ppRefsResolved \o record.ppRefsUnresolved
                 \o FirstOf(record.maintenance, rung.maintenance)
                 \o FirstOf(Deduped(Cves(record)), rung.cve) \o record.directRefs
                 \o <<record.snapshot>>, 0))
  IN Root(record.corpus, record.sourceId, "metadata", tags.core \o tags.unresolved \o tags.tail,
          Facets(record), FirstFit(CertLadder, Assemble), Artifacts(record))

\* How many records claim a profile.
Membership(bundle, dgst) ==
  Len(SelectSeq(bundle.cc \o bundle.eucc, LAMBDA record : dgst \in ToSet(record.ppRefsResolved)))

PpRoot(pp, membership) ==
  LET alias == FirstOf(pp.printedAliases, 1)
  IN Root("pp", pp.sourceId, "product",
       Present(<<<<"pp", pp.sourceId>>>> \o Values("pp", alias) \o <<Value("scheme", pp.scheme)>>),
       {"sec-certs"},
       ComposeContent(
         Line("headline", alias \o <<pp.sourceId, pp.name, pp.scheme, pp.snapshot>>, 0),
         <<Line("membership", <<pp.sourceId>>, membership),
           Line("aliases", pp.printedAliases, 0),
           Line("provenance", <<pp.snapshot>>, 0)>>,
         <<Line("record page", <<pp.sourceId>>, 0), Line("profile link", <<pp.link>>, 0)>>,
         Card(<<pp.sourceId>> \o alias \o <<pp.name, pp.scheme, pp.snapshot>>, 0)), 0)

FipsLinks(record) ==
  <<Line("record page", <<record.sourceId>>, 0),
    Line("provenance", <<record.snapshot, record.vendor>>, 0)>>

FipsModuleRoot(record) ==
  LET Assemble(rung) ==
        ComposeContent(
          Line("headline", <<record.fipsId, record.name, record.vendor, record.snapshot>>, 0),
          <<Clipped("cves", Cves(record), rung.cve)>>,
          FipsLinks(record),
          Card(<<record.fipsId, record.name, record.vendor, record.snapshot>>, 0))
  IN Root("fips", record.sourceId, "product",
          Present(<<<<"fips", record.fipsId>>, Value("vendor", record.vendor)>>),
          Facets(record), FirstFit(ModuleLadder, Assemble), 0)

\* The policy has no size in any export, so its imeta row is counted but never there.
FipsMetadataRoot(record) ==
  LET iSet == FipsTags(record)
      Assemble(rung) ==
        ComposeContent(
          Line("headline", <<record.fipsId, record.name, record.vendor, record.snapshot>>, 0),
          <<Line("families", record.algFamilies, 0),
            Clipped("cavp", record.cavpRefs, rung.cavp),
            Clipped("cves", Cves(record), rung.cve),
            Line("cross references", record.directRefs, 0)>>,
          FipsLinks(record),
          Card(<<record.fipsId, record.vendor>> \o FirstOf(record.cavpRefs, rung.cavp)
                 \o FirstOf(Deduped(Cves(record)), rung.cve) \o <<record.snapshot>>, 0))
  IN Root("fips", record.sourceId, "metadata", iSet, Facets(record),
          FirstFit(FipsLadder, Assemble), 0)

CvesOf(records) == UNION {ToSet(Cves(record)) : record \in ToSet(records)}

\* A fault: the CVEs of maintenance reports are forgotten.
RecordAdvisoriesFor(bundle) ==
  Mapped(LAMBDA cve : [cve |-> cve, ccVictim |-> cve \in CvesOf(bundle.cc)],
         Sorted(CvesOf(bundle.cc \o bundle.eucc \o bundle.fips)))

\* The CVEs of every record, with whether a cc record is among the victims.
AdvisoriesFor(bundle) ==
  LET OfUpdates == UNION {ToSet(update.cves) : update \in ToSet(bundle.maintenance)}
  IN Mapped(LAMBDA cve : [cve |-> cve, ccVictim |-> cve \in CvesOf(bundle.cc)],
            Sorted(CvesOf(bundle.cc \o bundle.eucc \o bundle.fips) \cup OfUpdates))

AdvisoryRoot(advisory, snapshot) ==
  Root("global", advisory.cve, "advisory", <<<<"cve", advisory.cve>>>>,
       IF advisory.cve = RocaCve THEN {"sec-certs", "roca", "jcalgtest"} ELSE {"sec-certs"},
       ComposeContent(Line("headline", <<advisory.cve, snapshot>>, 0),
                      <<Line("provenance", <<snapshot>>, 0)>>,
                      <<Line("network link", <<>>, IF advisory.ccVictim THEN 1 ELSE 0),
                        Line("authorship", <<>>, 0)>>,
                      Card(<<advisory.cve, snapshot>>, 0)), 0)

CorpusRoot(corpus, count, snapshot) ==
  Root(corpus, 0, "corpus", <<>>, {"sec-certs"},
       ComposeContent(Line("headline", <<snapshot>>, 0), <<Line("counts", <<>>, count)>>,
                      <<Line("dataset", <<>>, 0)>>, Card(<<snapshot>>, count)), 0)

SnapshotRoot(corpus, count, snapshot) ==
  Root(corpus, snapshot, "snapshot", <<>>, {"sec-certs"},
       ComposeContent(Line("headline", <<snapshot>>, 0), <<Line("counts", <<>>, count)>>,
                      <<Line("dataset", <<>>, 0)>>, Card(<<snapshot>>, count)), 1)

PlanRoots(bundle) ==
  LET CertRoots(record) == <<ToeRoot(record), CertMetadataRoot(record, bundle.pp)>>
      ModuleRoots(record) == <<FipsModuleRoot(record), FipsMetadataRoot(record)>>
      Size(corpus) == Len(bundle[corpus])
  IN Mapped(LAMBDA corpus : CorpusRoot(corpus, Size(corpus), bundle.snapshot), bundle.corp)
     \o Mapped(LAMBDA pp : PpRoot(pp, Membership(bundle, pp.sourceId)), bundle.pp)
     \o FlattenSeq(Mapped(CertRoots, bundle.cc \o bundle.eucc))
     \o FlattenSeq(Mapped(ModuleRoots, bundle.fips))
     \o Mapped(LAMBDA advisory : AdvisoryRoot(advisory, bundle.snapshot), AdvisoriesFor(bundle))
     \o Mapped(LAMBDA corpus : SnapshotRoot(corpus, Size(corpus), bundle.snapshot), bundle.corp)

-----------------------------------------------------------------------------
(* The relations; a fingerprint is the relation itself *)

Rel(id, root, link, cls, labels) ==
  [id |-> id, root |-> root, link |-> link, cls |-> cls, labels |-> labels]

\* A product and its record.
RecordRelation(record, label) ==
  Rel(<<record.corpus, "record", record.sourceId, 0>>,
      <<record.corpus, record.sourceId, "product">>,
      <<record.corpus, record.sourceId, "metadata">>, None, <<record.name, label>>)

\* A resolved profile without a record has no relation.
PpMembershipRelations(record, pps) ==
  LET known == {pp.sourceId : pp \in ToSet(pps)}
      NameOf(dgst) == Last(SelectSeq(pps, LAMBDA pp : pp.sourceId = dgst)).name
  IN Mapped(LAMBDA dgst : Rel(<<record.corpus, "pp", record.sourceId, dgst>>,
                              <<"pp", dgst, "product">>,
                              <<record.corpus, record.sourceId, "metadata">>, None,
                              <<NameOf(dgst), Or(record.certId, record.sourceId)>>),
            Selected(record.ppRefsResolved, known))

\* One relation per CVE; a direct one is direct whatever else it is.
AdvisoryVictimRelations(record) ==
  LET ClassOf(cve) ==
        IF \E c \in ToSet(record.cves) : c.cve = cve /\ c.cls = "direct"
          THEN "direct" ELSE "transitive"
  IN Mapped(LAMBDA cve : Rel(<<record.corpus, "adv", record.sourceId, cve>>,
                             <<record.corpus, record.sourceId, "product">>,
                             <<"global", cve, "advisory">>, ClassOf(cve), <<record.name>>),
            Sorted(ToSet(Cves(record))))

\* The victim of a maintenance report is the certificate it updates, there or not.
MaintenanceAdvisoryRelations(update, certs) ==
  LET parents == SelectSeq(certs, LAMBDA record : record.sourceId = update.parentDgst)
      label == IF parents = <<>> THEN update.parentDgst ELSE Last(parents).name
  IN Mapped(LAMBDA cve : Rel(<<"maintenance", "adv-maint", update.sourceId, cve>>,
                             <<"cc", update.parentDgst, "product">>,
                             <<"global", cve, "advisory">>, "maintenance", <<label>>),
            SortSeq(update.cves, <))

CrosslinkRelation(pair) ==
  Rel(<<"cc", "xlink", pair.cardKey, pair.certDgst>>, <<"jcalgtest", pair.cardKey, "product">>,
      <<"cc", pair.certDgst, "metadata">>, None, <<>>)

PlanRelations(bundle) ==
  LET OfCert(record) ==
        <<RecordRelation(record, Or(record.certId, record.sourceId))>>
          \o PpMembershipRelations(record, bundle.pp) \o AdvisoryVictimRelations(record)
      OfModule(record) ==
        <<RecordRelation(record, record.fipsId)>> \o AdvisoryVictimRelations(record)
      OfUpdate(update) == MaintenanceAdvisoryRelations(update, bundle.cc)
  IN FlattenSeq(Mapped(OfCert, bundle.cc \o bundle.eucc))
     \o FlattenSeq(Mapped(OfModule, bundle.fips))
     \o FlattenSeq(Mapped(OfUpdate, bundle.maintenance))
     \o Mapped(CrosslinkRelation, bundle.crosslinks)

-----------------------------------------------------------------------------
(* planBundle *)

\* The CVEs the plan declares, collected apart from the advisories themselves.
GlobalIds(bundle) ==
  {c.cve : c \in UNION {ToSet(record.cves) : record \in ToSet(bundle.cc)}}
    \cup {c.cve : c \in UNION {ToSet(record.cves) : record \in ToSet(bundle.eucc)}}
    \cup {c.cve : c \in UNION {ToSet(record.cves) : record \in ToSet(bundle.fips)}}
    \cup UNION {ToSet(update.cves) : update \in ToSet(bundle.maintenance)}

SourceIdsByCorpus(bundle) ==
  LET IdsIn(records) == {record.sourceId : record \in ToSet(records)}
  IN [cc |-> IdsIn(bundle.cc), eucc |-> IdsIn(bundle.eucc), pp |-> IdsIn(bundle.pp),
      fips |-> IdsIn(bundle.fips), maintenance |-> IdsIn(bundle.maintenance),
      global |-> GlobalIds(bundle)]

\* Two roots or two relations of one name abort the build.
Repeated(names) == ~IsInjective(names)

PlanBundle(bundle) ==
  With(PlanRoots(bundle), LAMBDA roots : With(PlanRelations(bundle), LAMBDA relations :
    [aborted |-> \/ With(Mapped(LAMBDA root : root.key, roots), Repeated)
                 \/ With(Mapped(LAMBDA relation : relation.id, relations), Repeated),
     roots |-> roots, relations |-> relations,
     sourceIdsByCorpus |-> SourceIdsByCorpus(bundle)]))
=============================================================================
