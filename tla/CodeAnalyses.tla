---------------------------- MODULE CodeAnalyses -----------------------------
(***************************************************************************)
(* The two analyses of one code, one after the other: they share nothing   *)
(* but the code, and must agree on where it may be jumped to.              *)
(***************************************************************************)
EXTENDS AdvancedAnalysis, BaselineAnalysis

analysisVars == <<advancedAnalysisVars, baselineAnalysisVars>>

InitAnalyses ==
    InitBytecode /\ InitAdvancedAnalysis /\ InitBaselineAnalysis

AnalyzeCode ==
    \/ AdvancedAnalyze /\ UNCHANGED baselineAnalysisVars
    \/ analyzed /\ BaselineAnalyze /\ UNCHANGED advancedAnalysisVars

AnalysesSpec == /\ InitAnalyses
                /\ [][AnalyzeCode]_<<analysisVars, code, rev>>
                /\ WF_<<analysisVars, code, rev>>(AnalyzeCode)

\* The bounds-checked lookup of the Baseline jump.
InJumpdestMap(offset) == offset < Len(code) /\ jumpdest_map[offset]

\* find_jumpdest of Advanced and the bitmap of Baseline accept the same jump
\* targets: a JUMPDEST byte inside push data, before or across the end of the
\* code, is a target for neither.
JumpdestsAgree ==
    analyzed /\ prepared =>
        \A offset \in 0..Len(code) + 1 :
            (find_jumpdest(offset) # 0) <=> InJumpdestMap(offset)

\* Both analyses return.
AnalysesTerminate == <>(analyzed /\ prepared)

=============================================================================
