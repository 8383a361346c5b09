\* The backup tool's exit status: run() returns Ok(()) after printing a hint
\* when it did nothing, so the process exits with status 0.
SPECIFICATION BottomlessSpec

INVARIANT ExitsZeroOnlyWhenDone
