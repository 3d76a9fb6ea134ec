--------------------------- MODULE WitcherValidator ---------------------------
(***************************************************************************)
(* The crash validators.                                                   *)
(*                                                                         *)
(* WitcherCrashValidator (src/replay/engines/witcher/                      *)
(* witchercrashvalidator.py): the crash manager calls validate(tx_index,   *)
(* fence_index, crash_plans), and every plan is made into a crash image    *)
(* and checked by running the recovery program on it from transaction     *)
(* tx_index + 1 (execute_from_crash_state).  The run times out, exits      *)
(* non-zero with a post-mortem signature, or exits 0 with one output line  *)
(* per transaction it completed.  That output is compared with oracle-full *)
(* from tx_index + 1 and with oracle-skip-tx_index from tx_index, and the  *)
(* result goes into the tested / reported lists and the three report maps. *)
(*                                                                         *)
(* WitcherTxCrashValidator, the tx engine's, is the same check with one    *)
(* crash point at a time and a plain list of reports.                      *)
(* WitcherCrashValidatorMt, the multi-thread engine's, compares the output *)
(* with one oracle per order of every subset of the parallel operations.  *)
(* A run uses one engine, chosen in Init.                                  *)
(*                                                                         *)
(* Data abstraction: the crash image matters only through what the         *)
(* recovery program prints on it.  So building it (copying the pm file,   *)
(* persisting the plan's stores) is left to the nondeterministic choice   *)
(* of the run's outcome.  A plan is its src_info, and the output file it  *)
(* is recorded under is its check number.  Lines are model values.  The   *)
(* memcached and redis drivers are not modelled.                          *)
(***************************************************************************)
EXTENDS Naturals, Sequences, SequencesExt, FiniteSets, Functions, TLC

CONSTANTS
    NTx,         \* transactions of the op file (one output line each)
    Vals,        \* output line values
    SrcInfos,    \* src_info of crash plans
    Cores,       \* post-mortem signatures get_crash_core_dump returns
    OracleFull,  \* the output of the traced run, copied to oracle-full
    NoFile,      \* an oracle-skip output file the oracle run did not write
    MaxChecks,   \* crash plans checked in a behaviour
    MaxPlans,    \* crash plans of one validate call
    MaxPoints,   \* crash points the tx engine checks in a behaviour
    CrashOps,    \* ops_crash: the op-file lines run in parallel, in order
    Start,       \* parallel_start_index: op-file lines before them
    NSuffix      \* op-file lines after them

ASSUME OracleFull \in [1..NTx -> Vals]

VARIABLES
    engine,      \* the engine the run uses: "witcher" or "tx"
    txIndex,     \* tx_index of the running validate call
    pending,     \* its crash plans still to be checked (their src_info)
    oracles,     \* self.oracles: tx_index -> oracle-skip output (DOMAIN: cached)
    tested,      \* tested_crash_plans
    reported,    \* reported_crash_plans
    srcMap,      \* reported_src_map
    coreMap,     \* reported_core_dump_map
    priority,    \* reported_priority
    history,     \* every check: its tx_index, src_info and run outcome
    txOracles,   \* WitcherTxCrashValidator.oracles
    txReported,  \* reported_crash_point_list (the check numbers)
    txHistory,   \* every crash point checked: its kind, tx index and outcome
    mtProg,      \* the oracle program's suffix output for each order of crash ops
    mtOracles    \* WitcherCrashValidatorMt.oracles with their output files

wvars == <<txIndex, pending, oracles, tested, reported, srcMap, coreMap,
           priority, history>>
tvars == <<txOracles, txReported, txHistory>>
mvars == <<mtProg, mtOracles>>
vars == <<engine, wvars, tvars, mvars>>

TxIds == 0..NTx - 1

\* Output of a run of the program: the first n lines of a full run's.
Outputs(n) == UNION {[1..k -> Vals] : k \in 0..n}

\* execute_from_crash_state (with get_crash_core_dump): the run from
\* transaction t + 1 times out, exits non-zero with a signature, or exits
\* 0 having printed a line per transaction it completed.
Outcomes(t) ==
    [kind : {"ok"}, out : Outputs(NTx - 1 - t)]
    \cup [kind : {"timeout"}] \cup [kind : {"exit"}, core : Cores]

\* The oracle-skip run from 0 skipping t: one line per other transaction,
\* fewer if it crashed, or no output file at all.
SkipOutputs == Outputs(NTx - 1) \cup {NoFile}

Init ==
    /\ engine \in {"witcher", "tx", "mt"}
    /\ txIndex = 0
    /\ pending = <<>>
    /\ oracles = <<>>
    /\ tested = <<>> /\ reported = <<>>
    /\ srcMap = <<>> /\ coreMap = <<>> /\ priority = <<>>
    /\ history = <<>>
    /\ txOracles = <<>> /\ txReported = <<>> /\ txHistory = <<>>
    /\ mtProg = <<>> /\ mtOracles = <<>>

(***************************************************************************)
(* compare_to_oracle_from_index: a missing oracle or a length mismatch is  *)
(* <<FALSE, <<"crash">>>>, the first differing line i is <<FALSE, idx + i>>     *)
(* (the tag 'tx-' + str(idx + i)), otherwise <<TRUE, <<"match">>>>.            *)
(***************************************************************************)
RECURSIVE FirstDiff(_, _, _)
FirstDiff(out, o, i) ==
    IF i > Len(out) THEN 0
    ELSE IF out[i] # o[i] THEN i ELSE FirstDiff(out, o, i + 1)

\* Mutant of CompareToOracleFromIndex: the length check dropped, so an
\* output cut short by a crash matches a prefix of the oracle.
CompareNoLengthCheck(out, oracle, idx) ==
    IF oracle = NoFile THEN <<FALSE, <<"crash">>>>
    ELSE LET o == SubSeq(oracle, idx + 1, Len(oracle))
             d == FirstDiff(out, o, 1)
         IN  IF Len(out) > Len(o) THEN <<FALSE, <<"crash">>>>
             ELSE IF d # 0 THEN <<FALSE, <<"tx", idx + d - 1>>>> ELSE <<TRUE, <<"match">>>>

\* Mutant of CompareToOracleFromIndex: the tag is the line of the output,
\* not of the oracle.
CompareTagOutputLine(out, oracle, idx) ==
    IF oracle = NoFile THEN <<FALSE, <<"crash">>>>
    ELSE LET o == SubSeq(oracle, idx + 1, Len(oracle))
             d == FirstDiff(out, o, 1)
         IN  IF Len(out) # Len(o) THEN <<FALSE, <<"crash">>>>
             ELSE IF d # 0 THEN <<FALSE, <<"tx", d - 1>>>> ELSE <<TRUE, <<"match">>>>

CompareToOracleFromIndex(out, oracle, idx) ==
    IF oracle = NoFile THEN <<FALSE, <<"crash">>>>
    ELSE LET o == SubSeq(oracle, idx + 1, Len(oracle))
             d == FirstDiff(out, o, 1)
         IN  IF Len(out) # Len(o) THEN <<FALSE, <<"crash">>>>
             ELSE IF d # 0 THEN <<FALSE, <<"tx", idx + d - 1>>>> ELSE <<TRUE, <<"match">>>>

\* compare_to_oracles: inconsistent when neither oracle matches; the
\* mismatch is the pair of tags (joined by a space in the code).
CompareToOracles(out, full, skip, t) ==
    LET f == CompareToOracleFromIndex(out, full, t + 1)
        s == CompareToOracleFromIndex(out, skip, t)
    IN  <<~f[1] /\ ~s[1], <<f[2], s[2]>>>>

(***************************************************************************)
(* update_result: every checked plan is tested; a reported one is added to *)
(* reported_crash_plans and, keyed by its src_info and by its signature    *)
(* (the core dump, or 'output diff:' + mismatch when there is none), to    *)
(* the two maps and the nested priority map.                               *)
(***************************************************************************)
NoCore == "none"   \* crash_core_dump is None

\* dict.setdefault(k, []).append(x)
AppendAt(m, k, x) ==
    IF k \in DOMAIN m THEN [m EXCEPT ![k] = Append(@, x)] ELSE m @@ (k :> <<x>>)

Signature(core, mismatch) ==
    IF core = NoCore THEN <<"output diff", mismatch>> ELSE core

\* Mutant of UpdateResult: a report is added to the priority map only
\* under a src_info seen for the first time.
UpdateResultNewSrcOnly(src, core, report, mismatch) ==
    LET id  == Len(tested) + 1
        key == Signature(core, mismatch)
    IN  /\ tested' = Append(tested, id)
        /\ IF report
           THEN /\ reported' = Append(reported, id)
                /\ srcMap' = AppendAt(srcMap, src, id)
                /\ coreMap' = AppendAt(coreMap, key, id)
                /\ priority' = IF src \in DOMAIN priority THEN priority
                               ELSE priority @@ (src :> (key :> <<id>>))
           ELSE UNCHANGED <<reported, srcMap, coreMap, priority>>

UpdateResult(src, core, report, mismatch) ==
    LET id  == Len(tested) + 1
        key == Signature(core, mismatch)
    IN  /\ tested' = Append(tested, id)
        /\ IF report
           THEN /\ reported' = Append(reported, id)
                /\ srcMap' = AppendAt(srcMap, src, id)
                /\ coreMap' = AppendAt(coreMap, key, id)
                /\ priority' = IF src \in DOMAIN priority
                               THEN [priority EXCEPT ![src] = AppendAt(@, key, id)]
                               ELSE priority @@ (src :> (key :> <<id>>))
           ELSE UNCHANGED <<reported, srcMap, coreMap, priority>>

(***************************************************************************)
(* get_oracles: oracle-full is a copy of the traced output; oracle-skip-t  *)
(* is run once, on first use, and its output file cached under t.          *)
(***************************************************************************)
\* Mutant of GetOracles: the cache is not consulted, the oracle is rerun.
GetOraclesRerun(t, so) ==
    /\ so \in SkipOutputs
    /\ oracles' = (t :> so) @@ oracles

GetOracles(t, so) ==
    IF t \in DOMAIN oracles
    THEN so = oracles[t] /\ UNCHANGED oracles
    ELSE so \in SkipOutputs /\ oracles' = oracles @@ (t :> so)

(***************************************************************************)
(* validate: the crash plans of one call are checked one at a time.        *)
(***************************************************************************)
Validate(T) ==
    /\ pending = <<>>
    /\ \E t \in T, n \in 1..MaxPlans :
        /\ Len(tested) + n <= MaxChecks
        /\ \E ps \in [1..n -> SrcInfos] : pending' = ps /\ txIndex' = t
    /\ UNCHANGED <<oracles, tested, reported, srcMap, coreMap, priority, history>>

\* Mutant of Check: the loop over crash_plans does not advance.
CheckNoAdvance(r) ==
    /\ pending' = pending
    /\ history' = Append(history, [tx |-> txIndex, src |-> Head(pending), run |-> r])
    /\ UNCHANGED txIndex

\* One check_consistency on the next plan, with outcome r of the run.
Check(r) ==
    /\ pending' = Tail(pending)
    /\ history' = Append(history, [tx |-> txIndex, src |-> Head(pending), run |-> r])
    /\ UNCHANGED txIndex

\* The run timed out: reported as 'output diff:timeout'.
CheckTimeout ==
    /\ pending # <<>>
    /\ \E r \in Outcomes(txIndex) :
        /\ r.kind = "timeout"
        /\ Check(r)
        /\ UpdateResult(Head(pending), NoCore, TRUE, <<"timeout">>)
    /\ UNCHANGED oracles

\* A non-zero exit: reported under its post-mortem signature.
CheckExitFailure ==
    /\ pending # <<>>
    /\ \E r \in Outcomes(txIndex) :
        /\ r.kind = "exit"
        /\ Check(r)
        /\ UpdateResult(Head(pending), r.core, TRUE, <<>>)
    /\ UNCHANGED oracles

\* Exit 0: compared with both oracles, reported when neither matches.
CheckOutput ==
    /\ pending # <<>>
    /\ \E r \in Outcomes(txIndex), so \in SkipOutputs :
        /\ r.kind = "ok"
        /\ GetOracles(txIndex, so)
        /\ Check(r)
        /\ LET c == CompareToOracles(r.out, OracleFull, so, txIndex)
           IN  UpdateResult(Head(pending), NoCore, c[1], c[2])

(***************************************************************************)
(* WitcherTxCrashValidator (src/replay/engines/witchertx/                  *)
(* witchertxcrashvalidator.py), called by WitcherTxCrashManager with one   *)
(* crash point at a time.  The run has no timeout and no post-mortem; a    *)
(* non-zero exit is reported; otherwise a NoLogging point is compared with *)
(* oracle-skip only, an InterTx or NoTx point with both oracles.           *)
(***************************************************************************)
CrashPointKinds == {"NoLogging", "InterTx", "NoTx"}

\* execute_from_crash_state: the output file may be missing.
TxOutputs(t) == Outputs(NTx - 1 - t) \cup {NoFile}

\* Mutant of CompareToOracle: a missing output file is not checked for.
CompareToOracleNoOutputCheck(out, oracle, idx) ==
    IF oracle = NoFile THEN FALSE
    ELSE LET o == SubSeq(oracle, idx + 1, Len(oracle))
         IN  out = NoFile \/ (Len(out) = Len(o) /\ FirstDiff(out, o, 1) = 0)

\* compare_to_oracle: no tag, only whether the output matches.
CompareToOracle(out, oracle, idx) ==
    IF out = NoFile \/ oracle = NoFile THEN FALSE
    ELSE LET o == SubSeq(oracle, idx + 1, Len(oracle))
         IN  Len(out) = Len(o) /\ FirstDiff(out, o, 1) = 0

\* Mutant of GetOracleSkip: the oracle is looked up under the first index
\* cached, whichever transaction the crash point is in.
GetOracleSkipAnyKey(t, so) ==
    IF DOMAIN txOracles # {}
    THEN so = txOracles[CHOOSE k \in DOMAIN txOracles : TRUE] /\ UNCHANGED txOracles
    ELSE so \in SkipOutputs /\ txOracles' = txOracles @@ (t :> so)

\* get_oracle_skip: run once per tx index, then cached.
GetOracleSkip(t, so) ==
    IF t \in DOMAIN txOracles
    THEN so = txOracles[t] /\ UNCHANGED txOracles
    ELSE so \in SkipOutputs /\ txOracles' = txOracles @@ (t :> so)

TxRecord(kind, t, r) ==
    txHistory' = Append(txHistory, [kind |-> kind, tx |-> t, run |-> r])

TxReport(report) ==
    txReported' = IF report THEN Append(txReported, Len(txHistory) + 1)
                  ELSE txReported

TxCheckExitFailure ==
    /\ Len(txHistory) < MaxPoints
    /\ \E kind \in CrashPointKinds, t \in TxIds :
        /\ TxRecord(kind, t, [kind |-> "exit"])
        /\ TxReport(TRUE)
    /\ UNCHANGED txOracles

TxCheckNoLogging ==
    /\ Len(txHistory) < MaxPoints
    /\ \E t \in TxIds, so \in SkipOutputs :
        \E out \in TxOutputs(t) :
        /\ GetOracleSkip(t, so)
        /\ TxRecord("NoLogging", t, [kind |-> "ok", out |-> out])
        /\ TxReport(~CompareToOracle(out, so, t))

TxCheckInterTx ==
    /\ Len(txHistory) < MaxPoints
    /\ \E kind \in {"InterTx", "NoTx"}, t \in TxIds, so \in SkipOutputs :
        \E out \in TxOutputs(t) :
        /\ GetOracleSkip(t, so)
        /\ TxRecord(kind, t, [kind |-> "ok", out |-> out])
        /\ TxReport(~CompareToOracle(out, OracleFull, t + 1)
                    /\ ~CompareToOracle(out, so, t))

(***************************************************************************)
(* WitcherCrashValidatorMt (src/replay/engines/witchermt/                  *)
(* witchercrashvalidatormt.py).  The op file has Start lines, then the     *)
(* lines of CrashOps that the threads run in parallel, then NSuffix lines; *)
(* a crash is taken inside the parallel part and the recovery program runs *)
(* the suffix (one output line per op).  Every plan is checked with        *)
(* FAKE_TX_ID.  On the first exit-0 check, get_oracles builds, for every   *)
(* length from 0 to num_threads and every permutation of that many crash   *)
(* ops (itertools order), the op file prefix + permutation + suffix, and   *)
(* runs it; the output of that oracle is compared from line Start + length *)
(* on.  The output is consistent when it matches one oracle.               *)
(***************************************************************************)
NThreads == Len(CrashOps)

FakeTxId == 0   \* witchercrashmanagermt.FAKE_TX_ID

\* The orders of subsets of the crash ops (the reference set).
MtArr == {s \in UNION {[1..k -> ToSet(CrashOps)] : k \in 0..NThreads} :
            IsInjective(s)}

\* What an oracle run prints for the suffix: every line, fewer if it
\* crashed (a crash in the prefix or the permutation compares as an empty
\* suffix), or no output file.
MtOutputs == Outputs(NSuffix) \cup {NoFile}

\* The oracle's output file: one line per prefix and permutation op (their
\* values are never compared), then the suffix lines.
Fill(k) == [i \in 1..k |-> CHOOSE v \in Vals : TRUE]
OracleOut(prog, a) ==
    IF prog[a] = NoFile THEN NoFile ELSE Fill(Start + Len(a)) \o prog[a]

RECURSIVE Perms(_, _)

\* Mutant of Perms: itertools.combinations, each subset in one order only.
PermsCombinations(s, k) ==
    IF k = 0 THEN <<<<>>>>
    ELSE FlattenSeq([i \in DOMAIN s |->
             [j \in DOMAIN Perms(SubSeq(s, i + 1, Len(s)), k - 1) |->
                 <<s[i]>> \o Perms(SubSeq(s, i + 1, Len(s)), k - 1)[j]]])

\* itertools.permutations(s, k): each element of s in turn, followed by
\* every permutation of k - 1 of the others.
Perms(s, k) ==
    IF k = 0 THEN <<<<>>>>
    ELSE FlattenSeq([i \in DOMAIN s |->
             [j \in DOMAIN Perms(RemoveAt(s, i), k - 1) |->
                 <<s[i]>> \o Perms(RemoveAt(s, i), k - 1)[j]]])

\* The oracle op files in oracle_count order.
OracleArrangements ==
    FlattenSeq([n \in 1..NThreads + 1 |-> Perms(CrashOps, n - 1)])

\* get_oracles: once, for the whole run (len(self.oracles) > 0 returns).
GetOraclesMt ==
    IF mtOracles # <<>> THEN UNCHANGED mvars
    ELSE \E prog \in [MtArr -> MtOutputs] :
           /\ mtProg' = prog
           /\ mtOracles' = [i \in DOMAIN OracleArrangements |->
                              LET a == OracleArrangements[i]
                              IN  [arr |-> a, idx |-> Start + Len(a),
                                   out |-> OracleOut(prog, a)]]

\* compare_to_oracles: inconsistent when no oracle matches; the tags in
\* oracle order.
MtCompareToOracles(out, os) ==
    LET c == [i \in DOMAIN os |-> CompareToOracleFromIndex(out, os[i].out, os[i].idx)]
    IN  <<\A i \in DOMAIN c : ~c[i][1], [i \in DOMAIN c |-> c[i][2]]>>

\* check_consistency, exit 0: the oracles are built on first use.
MtCheckOutput ==
    /\ pending # <<>>
    /\ \E r \in [kind : {"ok"}, out : Outputs(NSuffix)] :
        /\ Check(r)
        /\ GetOraclesMt
        /\ LET c == MtCompareToOracles(r.out, mtOracles')
           IN  UpdateResult(Head(pending), NoCore, c[1], c[2])
    /\ UNCHANGED oracles

Next ==
    \/ /\ engine = "witcher"
       /\ Validate(TxIds) \/ CheckTimeout \/ CheckExitFailure \/ CheckOutput
       /\ UNCHANGED <<engine, tvars, mvars>>
    \/ /\ engine = "tx"
       /\ TxCheckExitFailure \/ TxCheckNoLogging \/ TxCheckInterTx
       /\ UNCHANGED <<engine, wvars, mvars>>
    \/ /\ engine = "mt"
       /\ \/ (Validate({FakeTxId}) \/ CheckTimeout \/ CheckExitFailure)
             /\ UNCHANGED mvars
          \/ MtCheckOutput
       /\ UNCHANGED <<engine, tvars>>

Spec == Init /\ [][Next]_vars

(***************************************************************************)
(* Properties                                                              *)
(***************************************************************************)
TypeOK ==
    /\ txIndex \in TxIds
    /\ pending \in Seq(SrcInfos) /\ Len(pending) <= MaxPlans
    /\ DOMAIN oracles \subseteq TxIds
    /\ \A t \in DOMAIN oracles : oracles[t] \in SkipOutputs
    /\ Len(history) <= MaxChecks
    /\ DOMAIN txOracles \subseteq TxIds
    /\ Len(txHistory) <= MaxPoints
    /\ IsInjective(reported) /\ ToSet(reported) \subseteq ToSet(tested)
    /\ mtOracles # <<>> => mtProg \in [MtArr -> MtOutputs]

\* The spec's (4.5) reading of an output: it is consistent iff it is,
\* line for line, the oracle from idx on.
RefMatches(out, o, idx) == o # NoFile /\ out = SubSeq(o, idx + 1, Len(o))

\* The tag of the spec: "crash" for a missing or short file, else the
\* first mismatching line of the oracle.
RefTag(out, o, idx) ==
    LET sub == IF o = NoFile THEN <<>> ELSE SubSeq(o, idx + 1, Len(o))
    IN  IF o = NoFile \/ Len(out) # Len(sub) THEN <<"crash">>
        ELSE IF out = sub THEN <<"match">>
        ELSE <<"tx", idx - 1 + Min({i \in DOMAIN out : out[i] # sub[i]})>>

\* The multi-thread engine's reading (the spec, 4.6): the output after a
\* crash in the parallel part is consistent iff it is what the suffix
\* prints after some of the crash ops ran, in some order.
MtConsistent(out) ==
    \E a \in MtArr : RefMatches(out, OracleOut(mtProg, a), Start + Len(a))

\* What a check must be reported as, from its run and the oracles.
Fails(h) ==
    \/ h.run.kind # "ok"
    \/ /\ engine # "mt"
       /\ ~RefMatches(h.run.out, OracleFull, h.tx + 1)
       /\ ~RefMatches(h.run.out, oracles[h.tx], h.tx)
    \/ engine = "mt" /\ ~MtConsistent(h.run.out)

\* The same for a crash point of the tx engine: an undo-logging crash
\* must have rolled its transaction back, so only oracle-skip is legal.
TxFails(h) ==
    \/ h.run.kind # "ok"
    \/ /\ h.kind = "NoLogging"
       /\ ~RefMatches(h.run.out, txOracles[h.tx], h.tx)
    \/ /\ h.kind # "NoLogging"
       /\ ~RefMatches(h.run.out, OracleFull, h.tx + 1)
       /\ ~RefMatches(h.run.out, txOracles[h.tx], h.tx)

\* The orders of the crash ops by length, then lexicographically by the
\* ops' positions in the op file.
PosIn(x) == CHOOSE i \in DOMAIN CrashOps : CrashOps[i] = x
RECURSIVE LexBefore(_, _)
LexBefore(a, b) ==
    /\ a # <<>> /\ b # <<>>
    /\ \/ PosIn(Head(a)) < PosIn(Head(b))
       \/ Head(a) = Head(b) /\ LexBefore(Tail(a), Tail(b))
RefArrOrder ==
    SortSeq(SetToSeq(MtArr), LAMBDA a, b :
        Len(a) < Len(b) \/ (Len(a) = Len(b) /\ LexBefore(a, b)))

RefKey(h) ==
    CASE h.run.kind = "timeout" -> <<"output diff", <<"timeout">>>>
      [] h.run.kind = "exit"    -> h.run.core
      [] engine = "mt" ->
           <<"output diff", [i \in DOMAIN RefArrOrder |->
               LET a == RefArrOrder[i]
               IN  RefTag(h.run.out, OracleOut(mtProg, a), Start + Len(a))]>>
      [] OTHER -> <<"output diff", <<RefTag(h.run.out, OracleFull, h.tx + 1),
                                     RefTag(h.run.out, oracles[h.tx], h.tx)>>>>

\* check_consistency with get_oracles' cache: the oracle-skip of the
\* transaction of every plan compared is cached; every plan checked is
\* tested, and exactly those whose run timed out, failed, or printed an
\* output matching neither oracle-full nor the oracle-skip of its
\* transaction (the one cached when first computed) are reported, in order;
\* and WitcherTxCrashValidator reports exactly the crash points that fail
\* (TxFails), in order.
ReportedExactlyTheFailures ==
    /\ \A k \in DOMAIN history :
           history[k].run.kind = "ok" =>
               IF engine = "mt" THEN mtOracles # <<>>
               ELSE history[k].tx \in DOMAIN oracles
    /\ \A k \in DOMAIN txHistory :
           txHistory[k].run.kind = "ok" => txHistory[k].tx \in DOMAIN txOracles
    /\ tested = [k \in DOMAIN history |-> k]
    /\ reported = SelectSeq(tested, LAMBDA k : Fails(history[k]))
    /\ txReported = SelectSeq([k \in DOMAIN txHistory |-> k],
                              LAMBDA k : TxFails(txHistory[k]))

\* update_result: reported_src_map, reported_core_dump_map and
\* reported_priority partition the reported plans by src_info, by the
\* spec's failure signature (the tag of the first mismatching line), and by
\* both, each list in report order and no key without a plan.
ReportMapsClassifyReported ==
    LET R == ToSet(reported)
        By(P(_)) == SelectSeq(reported, P)
    IN  /\ DOMAIN srcMap = {history[k].src : k \in R}
        /\ \A s \in DOMAIN srcMap :
               srcMap[s] = By(LAMBDA k : history[k].src = s)
        /\ DOMAIN coreMap = {RefKey(history[k]) : k \in R}
        /\ \A c \in DOMAIN coreMap :
               coreMap[c] = By(LAMBDA k : RefKey(history[k]) = c)
        /\ DOMAIN priority = DOMAIN srcMap
        /\ \A s \in DOMAIN priority :
               /\ DOMAIN priority[s] =
                      {RefKey(history[k]) : k \in {j \in R : history[j].src = s}}
               /\ \A c \in DOMAIN priority[s] :
                      priority[s][c] =
                          By(LAMBDA k : history[k].src = s /\ RefKey(history[k]) = c)
=============================================================================
