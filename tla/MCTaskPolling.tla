---------------------------- MODULE MCTaskPolling ----------------------------
(* Instances of TaskPolling for TLC. *)
EXTENDS TaskPolling, TLC

CONSTANT c1

AllVideo == [t \in Tasks |-> "video"]

\* Task 1 is a video, task 2 a song.
Mixed == [t \in Tasks |-> IF t = 1 THEN "video" ELSE "suno"]

OneChannel == [t \in Tasks |-> c1]

Report(s) == [status |-> s, full |-> s \in Terminal, reason |-> s = "FAILURE"]

\* Answers whose progress and fail reason fit their status.
PlainReports == {Report(s) : s \in {"QUEUED", "IN_PROGRESS", "SUCCESS", "FAILURE"}}

\* An upstream that does not go back and forth between unfinished statuses.
SteadyReports == {Report(s) : s \in {"IN_PROGRESS", "SUCCESS", "FAILURE"}}

\* And an unfinished task at 100%, or with a fail reason.
OddReports ==
    PlainReports \cup {[status |-> "IN_PROGRESS", full |-> TRUE, reason |-> FALSE],
                      [status |-> "IN_PROGRESS", full |-> FALSE, reason |-> TRUE]}
=============================================================================
