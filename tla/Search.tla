------------------------------- MODULE Search -------------------------------
(***************************************************************************)
(* search.c: how the entries of a menu are matched with what is typed, and *)
(* ordered.  A text is a sequence of letters, cases folded, <<>> for NULL; *)
(* an entry is a record of its text and what it stands for.                *)
(***************************************************************************)
EXTENDS Naturals, Sequences, SequencesExt, Lists

CONSTANTS
  Windows,     \* from a client to its label, its names (oldest first), class, hidden
  Paths,       \* the file names there are
  Executable   \* those of them cwm may execute

\* What glob finds is a set of file names
ASSUME PathsAssumption ==
  IsFiniteSet(Paths) /\ Paths \subseteq Seq(Nat) /\ Executable \subseteq Paths

NoTier == 4    \* tier -1

\* search, string compared ignoring case: < 0 of strcasecmp
Before(s, t) ==
  \/ IsStrictPrefix(s, t)
  \/ \E i \in DOMAIN s \cap DOMAIN t :
        SubSeq(s, 1, i - 1) = SubSeq(t, 1, i - 1) /\ s[i] < t[i]

\* strsubmatch with zeroidx 0
SubMatch(sub, str) == \E n \in 0..Len(str) : IsPrefix(sub, SubSeq(str, n + 1, Len(str)))

\* search_match_text
MatchText(menuq, search) == Keep(menuq, {mi \in ToSet(menuq) : SubMatch(search, mi.text)})

\* The tier of a client before its state counts
BaseTier(w, search) ==
  IF SubMatch(search, w.label) THEN 0
  ELSE IF \E i \in DOMAIN w.names : SubMatch(search, w.names[i]) THEN 2
  ELSE IF SubMatch(search, w.class) THEN 3 ELSE NoTier

\* The current client goes down a tier, a hidden one up
Tier(w, search, current) ==
  LET base == BaseTier(Windows[w], search)
      down == IF base < 3 /\ w = current THEN base + 1 ELSE base
  IN  IF base = NoTier THEN NoTier
      ELSE IF Windows[w].hidden /\ down > 0 THEN down - 1 ELSE down

\* Mutant of MatchClient: only the entry of the tier itself is looked for
MatchClientOwnTier(menuq, search, current) ==
  LET step(acc, mi) ==
        LET tier == Tier(mi.ctx, search, current)
        IN  IF tier = NoTier THEN acc
            ELSE [q |-> IF acc.tierp[tier] = <<>> THEN <<mi>> \o acc.q
                        ELSE InsertAt(acc.q, SelectInSeq(acc.q, LAMBDA r : <<r>> = acc.tierp[tier]) + 1, mi),
                  tierp |-> [acc.tierp EXCEPT ![tier] = <<mi>>]]
  IN  FoldLeft(step, [q |-> <<>>, tierp |-> [t \in 0..3 |-> <<>>]], menuq).q

\* search_match_client: an entry is inserted after the last one of its tier, or
\* of the nearest tier above it.  tierp holds the last entry of each tier.
MatchClient(menuq, search, current) ==
  LET step(acc, mi) ==
        LET tier  == Tier(mi.ctx, search, current)
            above == {t \in 0..tier : acc.tierp[t] # <<>>}
            place == IF above = {} THEN 1
                     ELSE SelectInSeq(acc.q, LAMBDA r : <<r>> = acc.tierp[Max(above)]) + 1
        IN  IF tier = NoTier THEN acc
            ELSE [q |-> InsertAt(acc.q, place, mi), tierp |-> [acc.tierp EXCEPT ![tier] = <<mi>>]]
  IN  FoldLeft(step, [q |-> <<>>, tierp |-> [t \in 0..3 |-> <<>>]], menuq).q

\* search_match_exec, for what is typed without wildcards: sorted by insertion,
\* an entry whose text is there already is dropped
MatchExec(menuq, search) ==
  LET step(q, mi) ==
        LET stop == {j \in DOMAIN q : ~Before(q[j].text, mi.text)}
        IN  IF ~IsPrefix(search, mi.text) THEN q
            ELSE IF stop = {} THEN Append(q, mi)
            ELSE IF q[Min(stop)].text = mi.text THEN q
            ELSE InsertAt(q, Min(stop), mi)
  IN  FoldLeft(step, <<>>, menuq)

\* search_match_path: what glob finds, in order
MatchPath(paths, search) ==
  LET found == {[text |-> f, ctx |-> "path"] : f \in {p \in paths : IsPrefix(search, p)}}
  IN  CHOOSE q \in [1..Cardinality(found) -> found] :
        \A i, j \in DOMAIN q : i < j => Before(q[i].text, q[j].text)

\* search_match_exec_path
MatchExecPath(menuq, search) ==
  LET found == MatchExec(menuq, search)
  IN  IF found = <<>> THEN MatchPath(Executable, search) ELSE found

\* search_match_exec_path and search_match_path_any fill the list of results
\* with new entries, chained by "entry" where the menu follows "resultentry"
IsPathResult(results) == results # <<>> /\ results[1].ctx = "path"

=============================================================================
