------------------------------ MODULE MCMirroring ------------------------------
(***************************************************************************)
(* A small export with a record or two of every corpus, and what becomes   *)
(* of it a week later.  Texts: 1-9 digests of certificates, 11-12 of       *)
(* profiles, 13 of a module, 15-16 of reports, 21-29 names and links,      *)
(* 31-39 printed ids, 41-49 profile tokens and their keys, 51-54 CVEs,     *)
(* 61-69 vendors, schemes and levels, 71-79 algorithms and CAVP numbers,   *)
(* 81-89 CPEs, 91-94 updates and snapshots, 99 a card.                     *)
(***************************************************************************)
EXTENDS Mirroring

Text == 1..99

MCDigest == 1..9
MCSpaced == {39}
MCUnlabelled == [t \in Text |-> IF t = 38 THEN 31 ELSE t]
Same == [t \in Text |-> t]
\* 45 is 44 with a maintenance suffix.
MCBare == [t \in Text |-> IF t = 45 THEN 44 ELSE t]
MCFamilyOf == [t \in Text |-> IF t \in 71..73 THEN t ELSE None]
MCCavpOf == [t \in Text |-> IF t \in 74..79 THEN t ELSE None]

\* The code's strongest clip too shows more CPEs than there are tags for.
Rung(n, cpes) == [cve |-> n, maintenance |-> n, cpe |-> cpes, cavp |-> n]
MCLadder == <<Rung(6, 6), Rung(1, 3)>>

Cert(dgst, name, id) ==
  [dgst |-> dgst, name |-> name, heuristicId |-> id, certId |-> id, keywordIds |-> [t \in {} |-> 0],
   vendor |-> None, scheme |-> None, eal |-> None, certLink |-> 25, profiles |-> {}, tokens |-> {},
   refs |-> {}, related |-> <<>>, transitive |-> <<>>, algs |-> {}, cpes |-> <<>>,
   updates |-> <<>>, artifacts |-> {}]

\* The profile 11 is named by its digest and by its token; two profiles claim token 46.
Full ==
  [Cert(1, 21, 38) EXCEPT
    !.vendor = 61, !.scheme = 62, !.eal = 63, !.profiles = {11}, !.tokens = {45, 46},
    !.refs = {2, 39}, !.related = <<51>>, !.transitive = <<51, 52>>, !.algs = {71, 72},
    !.cpes = <<82, 81>>, !.updates = <<91>>, !.artifacts = {1}]

\* Without a printed id but for a keyword.
Bare2 == [Cert(2, 22, None) EXCEPT !.keywordIds = (32 :> 2) @@ (33 :> 1), !.related = <<52>>]

Europe == [Cert(3, 23, 34) EXCEPT !.vendor = 61, !.tokens = {44}, !.refs = {3}]

Profile(dgst, name, links) ==
  [dgst |-> dgst, name |-> name, scheme |-> 62, links |-> links, own |-> <<>>, link |-> 26]

Module ==
  [dgst |-> 13, certId |-> 35, standard |-> 1, name |-> 24, vendor |-> 61, cavps |-> {74, 75, 76},
   algs |-> {71}, related |-> <<53>>, transitive |-> <<>>, refs |-> <<35>>, policy |-> TRUE]

Report(dgst, parent, cves) == [dgst |-> dgst, parent |-> parent, cves |-> cves]

Import ==
  [cc |-> <<Full, Bare2>>, eucc |-> <<Europe>>,
   pp |-> <<Profile(11, 27, {44, 46}), Profile(12, 28, {46})>>,
   fips |-> <<Module>>,
   maintenance |-> <<Report(15, 1, <<54, 54>>), Report(16, 9, <<52>>)>>,
   cards |-> <<[anchor |-> 99, seeded |-> None, candidates |-> <<[dgst |-> 1, high |-> TRUE]>>]>>,
   snapshot |-> 93]

\* A renamed product; a link that moved; a vendor that changed; the next snapshot; a
\* record that is gone while a report names it; a CVE more; a record with more to be
\* found by than there is room for; a digest twice.
Renamed == [Import EXCEPT !.cc[1].name = 29]
Moved   == [Import EXCEPT !.cc[1].certLink = 24]
Sold    == [Import EXCEPT !.cc[2].vendor = 64]
Later   == [Import EXCEPT !.snapshot = 94]
Dropped == [Import EXCEPT !.cc = <<Bare2>>]
Struck  == [Import EXCEPT !.cc[2].related = <<52, 54>>]
Crowded == [Import EXCEPT !.cc[1].tokens = {41, 42, 43, 45}, !.cc[1].refs = {2, 36, 37},
                          !.cc[1].algs = {71, 72, 73}, !.cc[1].related = <<51, 52, 53, 54>>,
                          !.cc[1].cpes = <<81, 82, 83, 84>>]
Twice   == [Import EXCEPT !.cc = <<Full, Full>>]

MCExports ==
  <<{Import, Crowded}, {Renamed, Moved, Sold, Later, Dropped, Struck, Crowded, Twice}>>

MCWatched ==
  {<<"cc", 2, "metadata">>, <<"global", 52, "advisory">>}
=============================================================================
