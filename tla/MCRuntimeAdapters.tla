-------------------------- MODULE MCRuntimeAdapters --------------------------
\* Two tasks, of one session or of two, on each of the adapters.
EXTENDS RuntimeAdapters

CONSTANTS s1, s2

TwoTasks == {1, 2}
FirstTask == {1}
TwoSessions == {s1, s2}
SameOrOther == {<<s1, s1>>, <<s1, s2>>}
AllAdapters == {"claude", "gemini", "opencode", "codex"}
\* In one session the first task is the longer one.
Sizes ==
    [a \in AllAdapters |->
        [p \in SameOrOther |->
            IF p = <<s1, s2>> THEN IF a = "gemini" THEN <<2, 1>> ELSE <<2, 2>>
            ELSE IF a = "opencode" THEN <<5, 1>>
            ELSE IF a = "gemini" THEN <<3, 2>> ELSE <<4, 2>>]]
OneCall == {1}
TwoCalls == {1, 2}
=============================================================================
