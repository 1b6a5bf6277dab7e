------------------------------- MODULE Logger -------------------------------
(***************************************************************************)
(* Logger: threads log lines into one file, which is renamed by the second *)
(* and begun anew when it has reached its length.                          *)
(*                                                                         *)
(* Nothing is locked: each insertion into m_fout, and each step of rotate, *)
(* is a step of its own.  (Two insertions at once are a data race; the     *)
(* model has them in some order.)  LogStream logs in its destructor, with  *)
(* the same calls.  A line below the level is not logged and left out.     *)
(*                                                                         *)
(* External: a file has a number and is a sequence of pieces <<line,       *)
(* part>>; dir has the file of a name, 0 for none.  A stream that is not   *)
(* open fails at the first insertion and not before, opening one that is   *)
(* open makes it fail, and closing one that is not open does.              *)
(*                                                                         *)
(* log_pc[t] is the part that the thread writes next, "test" before m_len is   *)
(* compared, and "close", "rename", "reopen" in rotate.                    *)
(***************************************************************************)
EXTENDS Integers, Sequences, Functions

CONSTANTS
    Loggers,
    HeaderSize, ContentSize,   \* bytes
    MaxLength,                 \* m_max
    MaxLines, MaxOpens, MaxSeconds   \* bounds: calls of log; of open and close; seconds

ASSUME LoggerAssumption == {HeaderSize, ContentSize, MaxLength, MaxLines, MaxOpens, MaxSeconds} \subseteq Nat

Seconds == 0 .. MaxSeconds

VARIABLES
    fout,     \* the file that m_fout writes, 0 if it is closed
    fail,     \* its failbit or badbit
    named,    \* has m_file_name been set?
    m_len,
    log,      \* the file that has the name of the log, 0 for none
    rotated,  \* the files with that name and a second
    files,
    now, begun, opens,
    log_pc, line,
    app,      \* history: has the application opened the log and not closed it?
    unopened, \* history: lines that were begun when it had not
    returned, \* history: lines whose log has returned, not thrown
    astray,   \* history: lines of which a part met a stream that was not open
    replaced, \* history: files whose name was given to another one
    raced     \* history: lines during which another thread was in Logger

streamVars == <<fout, fail, m_len>>
fileVars == <<log, rotated, files>>
historyVars == <<app, unopened, returned, astray, replaced, raced>>
loggerVars == <<streamVars, named, fileVars, now, begun, opens, log_pc, line, historyVars>>

LoggerInit ==
    /\ fout = 0 /\ fail = FALSE /\ named = FALSE /\ m_len = 0
    /\ log = 0 /\ rotated = [s \in Seconds |-> 0] /\ files = <<>>
    /\ now = 0 /\ begun = 0 /\ opens = 0
    /\ log_pc = [t \in Loggers |-> "idle"] /\ line = [t \in Loggers |-> 0]
    /\ app = FALSE /\ unopened = {} /\ returned = {} /\ astray = {} /\ replaced = {} /\ raced = {}

LogGoto(t, l) == log_pc' = [log_pc EXCEPT ![t] = l]

Busy == {t \in Loggers : log_pc[t] # "idle"}

Parts == <<"header", "space", "content", "newline">>

Size(part) == CASE part = "header" -> HeaderSize [] part = "content" -> ContentSize [] OTHER -> 1

\* What m_len is made of.
Counted(part) == IF part \in {"header", "content"} THEN Size(part) ELSE 0

FileSize(f) == FoldFunction(LAMBDA piece, sum : Size(piece[2]) + sum, 0, files[f])

Tick ==
    /\ now < MaxSeconds /\ now' = now + 1
    /\ UNCHANGED <<streamVars, named, fileVars, begun, opens, log_pc, line, historyVars>>

-----------------------------------------------------------------------------
(* open and close *)

\* Mutant: what the file has is lost.
OpenTruncated ==
    IF fout # 0
    THEN fail' = TRUE /\ UNCHANGED <<fout, m_len, log, files>>
    ELSE /\ files' = IF log # 0 THEN [files EXCEPT ![log] = <<>>] ELSE Append(files, <<>>)
         /\ log' = IF log # 0 THEN log ELSE Len(files) + 1
         /\ fout' = log' /\ fail' = FALSE /\ m_len' = 0

\* At the end of the file, which is made if there is none.
OpenFile ==
    IF fout # 0
    THEN fail' = TRUE /\ UNCHANGED <<fout, m_len, log, files>>
    ELSE /\ files' = IF log # 0 THEN files ELSE Append(files, <<>>)
         /\ log' = IF log # 0 THEN log ELSE Len(files) + 1
         /\ fout' = log' /\ fail' = FALSE
         /\ m_len' = IF log # 0 THEN FileSize(log) ELSE 0

CloseFile ==
    /\ fout' = 0
    /\ fail' = (fail \/ fout = 0)

Open(t) ==
    /\ log_pc[t] = "idle" /\ opens < MaxOpens /\ opens' = opens + 1
    /\ OpenFile /\ named' = TRUE /\ app' = (fout = 0)
    /\ raced' = raced \cup {line[u] : u \in Busy}
    /\ UNCHANGED <<rotated, now, begun, log_pc, line, unopened, returned, astray, replaced>>

Close(t) ==
    /\ log_pc[t] = "idle" /\ opens < MaxOpens /\ opens' = opens + 1
    /\ CloseFile /\ app' = FALSE
    /\ raced' = raced \cup {line[u] : u \in Busy}
    /\ UNCHANGED <<m_len, named, fileVars, now, begun, log_pc, line, unopened, returned, astray, replaced>>

-----------------------------------------------------------------------------
(* log *)

Log(t) ==
    /\ log_pc[t] = "idle" /\ begun < MaxLines /\ begun' = begun + 1
    /\ line' = [line EXCEPT ![t] = begun']
    /\ unopened' = IF app THEN unopened ELSE unopened \cup {begun'}
    /\ IF fail
       THEN UNCHANGED <<log_pc, raced>>   \* an exception
       ELSE /\ LogGoto(t, "header")
            /\ raced' = IF Busy = {} THEN raced ELSE raced \cup {begun'} \cup {line[u] : u \in Busy}
    /\ UNCHANGED <<streamVars, named, fileVars, now, opens, app, returned, astray, replaced>>

\* m_fout << part
Insert(t) ==
    /\ \E i \in DOMAIN Parts :
           /\ log_pc[t] = Parts[i]
           /\ LogGoto(t, IF i < Len(Parts) THEN Parts[i + 1] ELSE "test")
    /\ IF fout # 0 /\ ~fail
       THEN files' = [files EXCEPT ![fout] = Append(@, <<line[t], log_pc[t]>>)] /\ UNCHANGED <<fail, astray>>
       ELSE fail' = TRUE /\ astray' = astray \cup {line[t]} /\ UNCHANGED files
    /\ m_len' = m_len + Counted(log_pc[t])
    /\ UNCHANGED <<fout, named, log, rotated, now, begun, opens, line, app, unopened, returned, replaced, raced>>

Return(t) == LogGoto(t, "idle") /\ returned' = returned \cup {line[t]}

Test(t) ==
    /\ log_pc[t] = "test"
    /\ IF m_len >= MaxLength /\ MaxLength > 0 THEN LogGoto(t, "close") /\ UNCHANGED returned ELSE Return(t)
    /\ UNCHANGED <<streamVars, named, fileVars, now, begun, opens, line, app, unopened, astray, replaced, raced>>

RotateClose(t) ==
    /\ log_pc[t] = "close"
    /\ CloseFile /\ LogGoto(t, "rename")
    /\ UNCHANGED <<m_len, named, fileVars, now, begun, opens, line, historyVars>>

Stamp == now

\* A file of the same second is replaced; without a file there is an exception.
Rename(t) ==
    /\ log_pc[t] = "rename"
    /\ IF named /\ log # 0
       THEN /\ rotated' = [rotated EXCEPT ![Stamp] = log] /\ log' = 0
            /\ replaced' = replaced \cup {rotated[Stamp]}
            /\ LogGoto(t, "reopen")
       ELSE LogGoto(t, "idle") /\ UNCHANGED <<rotated, log, replaced>>
    /\ UNCHANGED <<streamVars, named, files, now, begun, opens, line, app, unopened, returned, astray, raced>>

Reopen(t) ==
    /\ log_pc[t] = "reopen"
    /\ OpenFile
    /\ IF fout # 0 THEN LogGoto(t, "idle") /\ UNCHANGED returned ELSE Return(t)
    /\ UNCHANGED <<named, rotated, now, begun, opens, line, app, unopened, astray, replaced, raced>>

-----------------------------------------------------------------------------

LoggerNext ==
    \/ Tick
    \/ \E t \in Loggers :
           \/ Open(t) \/ Close(t) \/ Log(t)
           \/ Insert(t) \/ Test(t) \/ RotateClose(t) \/ Rename(t) \/ Reopen(t)

LoggerSpec == LoggerInit /\ [][LoggerNext]_loggerVars

-----------------------------------------------------------------------------
(* Properties *)

Named == {log} \cup {rotated[s] : s \in Seconds}

\* A line that was logged is in one piece in a file that has a name, also where
\* the log was rotated or closed and opened since, unless another thread was in
\* Logger at the time or a rotation of the same second has replaced the file.
LinesAreKept ==
    \A n \in returned \ (raced \cup astray) :
        \E f \in (Named \cup replaced) \ {0} :
            \E i \in 1 .. Len(files[f]) - 3 : \A j \in 1 .. 4 : files[f][i + j - 1] = <<n, Parts[j]>>

LinesOf(f) == IF f = 0 THEN {} ELSE {piece[1] : piece \in Range(files[f])}

Precede(f, g) == \A m \in LinesOf(f), n \in LinesOf(g) : m < n

\* Whoever reads the rotated files by their seconds and then the log finds the
\* lines in the order in which they were begun, unless threads logged together.
FilesAreInOrder ==
    raced = {} =>
        /\ \A r, s \in Seconds : r < s => Precede(rotated[r], rotated[s])
        /\ \A r \in Seconds : Precede(rotated[r], log)

\* A line goes astray only if the application has not opened the log, or another
\* thread rotates, closes or has failed meanwhile: rotation by itself loses none.
AstrayIfClosedOrRaced == raced = {} => astray \subseteq unopened

\* Lines that were logged are in the files, whole and in order, however often
\* the log was rotated, closed and opened, unless another thread was in Logger
\* at the time; and no line goes astray but for a log that was not open.
LogIsKept == LinesAreKept /\ FilesAreInOrder /\ AstrayIfClosedOrRaced
=============================================================================
