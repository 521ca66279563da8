----------------------------- MODULE MCTaskRuns -----------------------------
(* Small instances of TaskRuns for TLC.                                    *)
EXTENDS TaskRuns
=============================================================================
