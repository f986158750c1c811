----------------------------- MODULE ArtifactFiles -----------------------------
(***************************************************************************)
(* FileArtifactStore (src/src/executor/artifact-store-file.ts): an artifact *)
(* is a data file and a metadata file.  The daemon writes them, and logs   *)
(* an event with the reference that put() returned; another process (a     *)
(* support bundle, the daemon after a restart) may read them at any        *)
(* moment, and the daemon may die between any two file operations.         *)
(***************************************************************************)
EXTENDS Integers, Sequences

CONSTANT Artifacts   \* ids: randomUUID() never repeats one

VARIABLES
    files,   \* files[a]: its data and metadata: "none", "partial", "whole"
    put,     \* put(a): "idle", "writing", "returned", "broken"
    ops,     \* how many file operations put(a) has done
    logged,  \* the artifacts whose reference is in a logged event
    get,     \* the get() of the other process that has read the metadata
    gotten   \* what get() has returned, and whether the reference was logged

artifactVars == <<files, put, ops, logged, get, gotten>>

NoArtifact == 0

ArtifactInit ==
    /\ files = [a \in Artifacts |-> [data |-> "none", meta |-> "none"]]
    /\ put = [a \in Artifacts |-> "idle"]
    /\ ops = [a \in Artifacts |-> 0]
    /\ logged = {}
    /\ get = [of |-> NoArtifact, logged |-> FALSE]
    /\ gotten = {}

\* Fault: the metadata is written before the data.
FileOrder_MetaFirst == <<"meta", "data">>

\* put() writes the data, then the metadata.
FileOrder == <<"data", "meta">>

\* put() is synchronous: one at a time, until it throws (too large, disk full).
PutStart(a) ==
    /\ put[a] = "idle"
    /\ \A b \in Artifacts : put[b] # "writing"
    /\ put' = [put EXCEPT ![a] = "writing"]
    /\ UNCHANGED <<files, ops, logged, get, gotten>>

\* writeFileSync creates a file and fills it; after the last one put returns.
PutWrites(a) ==
    /\ put[a] = "writing"
    /\ ops' = [ops EXCEPT ![a] = @ + 1]
    /\ LET file == FileOrder[(ops[a] \div 2) + 1]
       IN  files' = [files EXCEPT ![a][file] =
                       IF ops[a] % 2 = 0 THEN "partial" ELSE "whole"]
    /\ put' = [put EXCEPT ![a] = IF ops[a] = 3 THEN "returned" ELSE @]
    /\ UNCHANGED <<logged, get, gotten>>

\* An operation fails and put throws, or the daemon dies.
PutBreaks(a) ==
    /\ put[a] = "writing"
    /\ put' = [put EXCEPT ![a] = "broken"]
    /\ UNCHANGED <<files, ops, logged, get, gotten>>

\* An event with the reference is appended (executor/engine.ts, after put).
LogRef(a) ==
    /\ put[a] = "returned"
    /\ logged' = logged \cup {a}
    /\ UNCHANGED <<files, put, ops, get, gotten>>

Gotten(a, found, wasLogged) ==
    gotten' = gotten \cup {[artifact |-> a, found |-> found, logged |-> wasLogged]}

\* get(a) parses the metadata; without it, or with half of it, it returns
\* undefined.
GetMeta(a) ==
    /\ get.of = NoArtifact
    /\ IF files[a].meta = "whole"
       THEN get' = [of |-> a, logged |-> a \in logged] /\ UNCHANGED gotten
       ELSE Gotten(a, "undefined", a \in logged) /\ UNCHANGED get
    /\ UNCHANGED <<files, put, ops, logged>>

\* It reads the data file as it is, or returns undefined if there is none.
GetData ==
    /\ get.of # NoArtifact
    /\ Gotten(get.of, IF files[get.of].data = "none" THEN "undefined"
                      ELSE files[get.of].data, get.logged)
    /\ get' = [get EXCEPT !.of = NoArtifact]
    /\ UNCHANGED <<files, put, ops, logged>>

ArtifactNext ==
    \/ GetData
    \/ \E a \in Artifacts :
         \/ PutStart(a) \/ PutWrites(a) \/ PutBreaks(a) \/ LogRef(a) \/ GetMeta(a)

-----------------------------------------------------------------------------

\* Whatever moment put() is cut short at, and whenever get() reads, it returns
\* the whole data or undefined, never a part of it (get takes the content hash
\* from the metadata and does not compute it again); and a reference that is
\* in the event log can always be read.
ArtifactsWhole ==
    \A g \in gotten :
        /\ g.found \in {"whole", "undefined"}
        /\ g.logged => g.found = "whole"
=============================================================================
