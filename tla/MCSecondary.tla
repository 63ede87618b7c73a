----------------------------- MODULE MCSecondary ----------------------------
(***************************************************************************)
(* Sections for Secondary: for one group of DJW all of few symbols with    *)
(* many distributions, for several groups sectors of every mix and code    *)
(* lengths that overflow beside an unused symbol, and for FGK every order  *)
(* of symbols, in sections that are kept and in sections that are not.     *)
(***************************************************************************)
EXTENDS Secondary

Config(ngroups, sector, inefficient) ==
  [ngroups |-> ngroups, sector_size |-> sector, data_type |-> "data", inefficient |-> inefficient]

Jobs(sections, configs) == [section : sections, cfg : configs]

\* freq[s] times symbol s, in order.
OfCounts(counts) ==
  FlattenSeq([s \in 1 .. ALPHABET_SIZE |-> [i \in 1 .. counts[s] |-> s - 1]])

\* Five symbols of many counts; the last is unused, or nearly so.
Counts == {c \o <<n>> : c \in {f \in [1 .. ALPHABET_SIZE - 1 -> {0, 1, 2, 5}] :
                                 \E s \in 1 .. ALPHABET_SIZE - 1 : f[s] > 0},
                       n \in 0 .. 1}

\* Sectors of two symbols.
Pairs == {<<0, 0>>, <<0, 1>>, <<2, 2>>, <<3, 1>>, <<4, 3>>}
Mixes == {FlattenSeq(f) : f \in [1 .. 4 -> Pairs]}

\* Frequencies that need a longer code than there is, in an alphabet with a
\* symbol more than the section has, and then sectors of a single symbol.
ZerosJobs ==
  Jobs({OfCounts(<<1, 1, 2, 4, 8, 0>>) \o [i \in 1 .. 8 |-> s] : s \in 0 .. 4},
       {Config(2, 2, FALSE)})

MCDjwJobs ==
  Jobs({OfCounts(c) : c \in Counts}, {Config(0, 0, FALSE)})
  \cup Jobs({m \o <<0>> : m \in Mixes}, {Config(n, 2, TRUE) : n \in 2 .. 3})
  \cup Jobs({m \o m \o m : m \in Mixes}, {Config(3, 2, FALSE)})
  \cup Jobs({<<0, 1, 2, 3, 4>>}, {Config(4, 2, FALSE), Config(2, 3, FALSE)})
  \cup ZerosJobs

\* With the efficiency rule four symbols never compress well enough, five mostly do.
MCFgkJobs ==
  Jobs([1 .. 4 -> 0 .. FgkSize - 1], {Config(0, 0, i) : i \in BOOLEAN})
  \cup Jobs({s \o <<s[1]>> : s \in [1 .. 4 -> 0 .. FgkSize - 1]}, {Config(0, 0, FALSE)})
  \cup Jobs({<<1>>}, {Config(0, 0, TRUE)})

\* DJW keeps nothing from section to section.
MCMaxSections == [djw |-> 1, fgk |-> 2]

MCExtra == <<3, 1>>
MCBasic == <<2>>
=============================================================================
