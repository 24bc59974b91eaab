---------------------------- MODULE ImportCleanup ----------------------------
(***************************************************************************)
(* The three scripts that add the task-tracker import to the crate's      *)
(* source files: fix_remaining_imports.py (add_import_to_file over a fixed *)
(* file list), clean_imports.py (clean_and_fix_imports over the files      *)
(* cargo reports a missing spawn_tracked for) and final_import_cleanup.py  *)
(* (fix_remaining_imports over every file cargo points at).  Each script   *)
(* runs to completion, so a run is one step.  fix_background_tasktype.py, *)
(* which renames TaskType::Background in the same crate, is the fourth.    *)
(*                                                                         *)
(* A source file is a sequence of line kinds:                              *)
(*   "doc"      a comment or blank line                                    *)
(*   "usestd"   a module-level `use` of another crate                      *)
(*   "usecrate" a module-level `use crate::...` of another item           *)
(*   "code"     any other line; it may open a block (fn, mod tests, ...)   *)
(*   "nested"   an indented `use crate::...` inside such a block           *)
(*   "T"        the target import at module level                          *)
(*   "Tn"       the target import inside a block                           *)
(* The scripts look at line.strip(), so "nested" looks to them exactly     *)
(* like "usecrate", and "Tn" like "T"; the target text contains `{`.       *)
(***************************************************************************)
EXTENDS Integers, Sequences, SequencesExt, FiniteSets

CONSTANTS
  Files,    \* source files, model values
  FixList,  \* the paths in fix_remaining_imports.py's files_to_fix
  MaxLen,   \* bound on the lines of a file
  Top,      \* stands for the scripts' 50: the lines counted as "the top"
  MaxRuns   \* bound on script runs

ASSUME MaxLen \in Nat /\ Top \in Nat \ {0} /\ MaxRuns \in Nat

Kinds == {"doc", "usestd", "usecrate", "code", "nested", "T", "Tn"}

\* A file that calls spawn_tracked, as rustc parses it: it has code, and a
\* nested line sits inside a block some earlier code line opened.
WellFormed(c) ==
  /\ \E i \in 1..Len(c) : c[i] = "code"
  /\ \A i \in 1..Len(c) : c[i] \in {"nested", "Tn"} => \E j \in 1..(i-1) : c[j] = "code"

Contents == {c \in BoundedSeq(Kinds, MaxLen) : WellFormed(c)}

IsTarget(kd)  == kd \in {"T", "Tn"}              \* target_import in line
CrateUse(kd)  == kd \in {"usecrate", "nested"}    \* starts 'use crate::', not task_tracker
AnyUse(kd)    == kd \in {"usestd", "usecrate", "nested", "T", "Tn"}  \* starts 'use '
Skippable(kd) == kd = "doc"                       \* '//' or blank

\* Module-level imports of the target: none means rustc cannot find
\* spawn_tracked, two mean it is defined multiple times.
TargetCount(c) == Cardinality({i \in 1..Len(c) : c[i] = "T"})
Missing(c)     == TargetCount(c) = 0
Broken(c)      == TargetCount(c) # 1

\* lines.insert(p, target_import); lines.insert(p + 1, ''): the import lands
\* in the block of the line above it.
InsertTarget(c, p) ==
  LET kd == IF p > 1 /\ c[p-1] \in {"nested", "Tn"} THEN "Tn" ELSE "T"
  IN  InsertAt(InsertAt(c, p, kd), p + 1, "doc")

\* The fallback of all three: before the first line that is not a comment
\* or blank; 0 when there is none.
FirstCode(c) == SelectInSeq(c, LAMBDA kd : ~Skippable(kd))

\* The loop of fix_remaining_imports and add_import_to_file: after the last
\* crate use, else after the first use; else the fallback.
InsertPoint(c) ==
  LET a == SelectLastInSeq(c, CrateUse)
      b == SelectInSeq(c, AnyUse)
  IN  IF a > 0 THEN a + 1 ELSE IF b > 0 THEN b + 1 ELSE FirstCode(c)

\* clean_and_fix_imports: every line holding the target is dropped (each
\* contains '{', so the i > 50 test never matters and has_proper_import
\* stays False); then after the last crate use, else after the last use,
\* else the fallback.  The file is written either way.
clean_and_fix_imports(c) ==
  LET cl == SelectSeq(c, LAMBDA kd : ~IsTarget(kd))
      a  == SelectLastInSeq(cl, CrateUse)
      b  == SelectLastInSeq(cl, AnyUse)
      p  == IF a > 0 THEN a + 1 ELSE IF b > 0 THEN b + 1 ELSE FirstCode(cl)
  IN  IF p = 0 THEN cl ELSE InsertTarget(cl, p)

\* fix_remaining_imports, per file: nothing if the target is in lines[:50];
\* else drop the copies at index i > 50 (0-based) and insert; the file is
\* written only when an insertion point was found.
fix_file(c) ==
  LET keep == SelectSeq([j \in 1..Len(c) |-> j],
                        LAMBDA j : ~(IsTarget(c[j]) /\ j - 1 > Top))
      cl   == [n \in 1..Len(keep) |-> c[keep[n]]]
  IN  IF \E i \in 1..Len(c) : i <= Top /\ IsTarget(c[i]) THEN c
      ELSE IF InsertPoint(cl) = 0 THEN c
      ELSE InsertTarget(cl, InsertPoint(cl))

\* add_import_to_file: nothing if the target is anywhere in the file.
add_import_to_file(c) ==
  IF \E i \in 1..Len(c) : IsTarget(c[i]) THEN c
  ELSE IF InsertPoint(c) = 0 THEN c
  ELSE InsertTarget(c, InsertPoint(c))

-----------------------------------------------------------------------------
VARIABLES
  content,     \* each file's lines
  background,  \* the files that mention TaskType::Background
  runs,        \* script runs so far
  ran          \* the script of the last run

vars == <<content, background, runs, ran>>

Init ==
  /\ content \in [Files -> Contents]
  /\ background \in SUBSET Files
  /\ runs = 0
  /\ ran = "none"

\* files_to_fix, less the paths that do not exist (add_import_to_file
\* returns at once for those).
files_to_fix == FixList \cap Files

\* fix_remaining_imports.py: add_import_to_file on every listed file.
RunFixRemaining ==
  /\ runs < MaxRuns
  /\ ran' = "fix_remaining_imports"
  /\ content' = [f \in Files |-> IF f \in files_to_fix
                                  THEN add_import_to_file(content[f])
                                  ELSE content[f]]
  /\ runs' = runs + 1
  /\ UNCHANGED background

\* get_files_with_spawn_tracked_errors: each "cannot find function
\* `spawn_tracked`" line is found with lines.index(line), which returns the
\* first equal line; every such line is equal, so only the file of the
\* first error is found -- any file missing the import, in cargo's order.
\* The possible results.
get_files_with_spawn_tracked_errors ==
  LET errs == {f \in Files : Missing(content[f])}
  IN  IF errs = {} THEN {{}} ELSE {{first} : first \in errs}

\* clean_imports.py: clean_and_fix_imports on every file found.
RunCleanImports ==
  /\ runs < MaxRuns
  /\ ran' = "clean_imports"
  /\ \E error_files \in get_files_with_spawn_tracked_errors :
       content' = [f \in Files |-> IF f \in error_files
                                   THEN clean_and_fix_imports(content[f])
                                   ELSE content[f]]
  /\ runs' = runs + 1
  /\ UNCHANGED background

\* final_import_cleanup.py: every file a `-->` line names -- each broken
\* file, and possibly others cargo warns about.
RunFinalCleanup ==
  /\ runs < MaxRuns
  /\ ran' = "final_import_cleanup"
  /\ \E sel \in SUBSET Files :
       /\ {f \in Files : Broken(content[f])} \subseteq sel
       /\ content' = [f \in Files |-> IF f \in sel THEN fix_file(content[f])
                                                  ELSE content[f]]
  /\ runs' = runs + 1
  /\ UNCHANGED background

\* fix_background_tasktype.py: if find fails, nothing; else every file grep
\* lists has each TaskType::Background replaced by TaskType::Maintenance.
\* The import text names TaskType alone, so no import line changes.
RunFixTaskType ==
  /\ runs < MaxRuns
  /\ ran' = "fix_background_tasktype"
  /\ \E findOk \in BOOLEAN : background' = IF findOk THEN {} ELSE background
  /\ runs' = runs + 1
  /\ UNCHANGED content

Next == RunFixRemaining \/ RunCleanImports \/ RunFinalCleanup \/ RunFixTaskType

Spec == Init /\ [][Next]_vars

-----------------------------------------------------------------------------
(* Properties.                                                             *)

\* A run leaves each file of S that lacked the module-level import, or had
\* exactly one, with exactly one.
Repairs(S) ==
  \A f \in S : Missing(content[f]) \/ ~Broken(content[f]) => ~Broken(content'[f])

\* What each import script is for: a run of fix_remaining_imports.py
\* repairs every listed file, and a run of clean_imports.py or
\* final_import_cleanup.py repairs every file -- whichever files cargo
\* happens to report, in whatever order.
RunRepairsImports ==
  [][/\ ran' = "fix_remaining_imports" => Repairs(files_to_fix)
     /\ ran' \in {"clean_imports", "final_import_cleanup"} => Repairs(Files)]_vars

=============================================================================
