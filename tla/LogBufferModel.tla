--------------------------- MODULE LogBufferModel ---------------------------
(***************************************************************************)
(* device/logbuffermodel.*: the message handler, which runs on any thread, *)
(* the ring of entries per level, and the main thread, which ten times a   *)
(* second writes the queued lines to dash.log, rotates it, and tells the   *)
(* page how many entries are new. A step ends where the lock is released   *)
(* or an atomic was accessed, and in the file where a crash may fall.      *)
(* The main thread's own messages are those of a thread that logs only     *)
(* while the main thread is between two of its steps.                      *)
(***************************************************************************)
EXTENDS Integers, Sequences, FiniteSets, SequencesExt

CONSTANTS
    Loggers,      \* threads
    Levels,       \* of which "info" is shown first and "warn" has the notes
    Capacity,     \* kCapacity
    MaxPending,   \* kMaxPendingWrites
    RotateAt,     \* kRotateBytes, in lines
    DiskFaults,   \* a line cannot be written, a file not removed or renamed
    OpenFaults,   \* the file cannot be opened
    MaxMessages,  \* bound: messages
    MaxTaps,      \* bound: taps on the page
    MaxRestarts   \* bound: ends of the process

ASSUME LogAssumption ==
    /\ {"info", "warn"} \subseteq Levels
    /\ Capacity \in Nat \ {0} /\ MaxPending \in Nat \ {0} /\ RotateAt \in Nat \ {0}
    /\ DiskFaults \in BOOLEAN /\ OpenFaults \in BOOLEAN
    /\ MaxMessages \in Nat /\ MaxTaps \in Nat /\ MaxRestarts \in Nat

VARIABLES
    calls,              \* per thread, where it is in handleMessage()
    buckets,            \* m_info, m_warn, m_error
    filterLevel,        \* m_filterLevel
    pendingWrites,      \* m_pendingWrites
    droppedWrites,      \* m_droppedWrites
    writeQueueFull,     \* m_writeQueueFull
    newSinceRefresh,    \* m_newSinceRefresh
    main,               \* what the main thread does next
    quitting,           \* in the destructor
    writes, dropped,    \* the locals of flushToDisk()
    lastNotifiedNew,    \* m_lastNotifiedNew
    badge,              \* what the page read of newSinceRefresh last
    isOpen, logBytes,   \* m_logFile, m_logBytes
    buffer,             \* written, not flushed
    log, rotated,       \* dash.log, dash.log.1
    messages, taps, restarts,
    settled   \* history: messages written, refused by the disk, told as dropped or
              \* ended with an earlier process

queue == <<pendingWrites, droppedWrites, writeQueueFull>>
page == <<lastNotifiedNew, badge>>
flush == <<quitting, writes, dropped>>
file == <<isOpen, logBytes, buffer, log, rotated>>
vars == <<calls, buckets, filterLevel, queue, newSinceRefresh, main, flush, page, file,
          messages, taps, restarts, settled>>

\* Messages are numbered in the order they reach the buckets.
Entry(level) == [id |-> messages + 1, level |-> level]
Note == [id |-> 0, level |-> "warn"]

Silent == [at |-> "none", level |-> "info", line |-> FALSE]
Running == main \notin {"off", "dead"}

\* The elements of s at the positions `kept`, in their order.
Only(s, kept) ==
    [k \in 1 .. Cardinality(kept) |->
        s[CHOOSE i \in kept : Cardinality({j \in kept : j <= i}) = k]]

Newest(n, s) == SubSeq(s, 1 + (IF Len(s) > n THEN Len(s) - n ELSE 0), Len(s))
PushCapped(bucket, e) == Newest(Capacity, Append(bucket, e))

----------------------------------------------------------------------------
\* Any thread.

\* handleMessage() up to the lock: a saturated writer gets no line.
HandleMessage(t, level) ==
    /\ Running /\ ~quitting /\ calls[t] = Silent
    /\ messages + Cardinality({u \in Loggers : calls[u].at = "append"}) < MaxMessages
    /\ calls' = [calls EXCEPT ![t] = [at |-> "append", level |-> level,
                                      line |-> ~writeQueueFull]]
    /\ UNCHANGED <<buckets, filterLevel, queue, newSinceRefresh, main, flush, page, file,
                   messages, taps, restarts, settled>>

Overflows(line) == ~line \/ Len(pendingWrites) >= MaxPending

AppendEntry(t) ==
    LET c == calls[t]
        visible == c.level = filterLevel
    IN  /\ c.at = "append"
        /\ messages' = messages + 1
        /\ buckets' = [buckets EXCEPT ![c.level] = PushCapped(@, Entry(c.level))]
        /\ IF Overflows(c.line)
           THEN /\ droppedWrites' = droppedWrites + 1 /\ writeQueueFull' = TRUE
                /\ UNCHANGED pendingWrites
           ELSE /\ pendingWrites' = Append(pendingWrites, Entry(c.level))
                /\ UNCHANGED <<droppedWrites, writeQueueFull>>
        /\ calls' = [calls EXCEPT ![t] = IF visible THEN [@ EXCEPT !.at = "count"]
                                         ELSE Silent]
        /\ UNCHANGED <<filterLevel, newSinceRefresh, main, flush, page, file, taps,
                       restarts, settled>>

\* The fetch_add after the lock.
CountNew(t) ==
    /\ calls[t].at = "count"
    /\ calls' = [calls EXCEPT ![t] = Silent]
    /\ newSinceRefresh' = newSinceRefresh + 1
    /\ UNCHANGED <<buckets, filterLevel, queue, main, flush, page, file, messages,
                   taps, restarts, settled>>

----------------------------------------------------------------------------
\* The writer: flushToDisk(), from the timer or the destructor.

AfterFlush == IF quitting' THEN "off" ELSE "notify"

\* MUTANT: the queue is taken without a look at the file.
HasWork_NoFile == pendingWrites # <<>> \/ droppedWrites > 0

HasWork == isOpen /\ (pendingWrites # <<>> \/ droppedWrites > 0)

TakeQueue ==
    IF HasWork
    THEN /\ writes' = pendingWrites /\ pendingWrites' = <<>>
         /\ dropped' = droppedWrites /\ droppedWrites' = 0
         /\ writeQueueFull' = FALSE
         /\ main' = "write"
    ELSE main' = AfterFlush /\ UNCHANGED <<queue, writes, dropped>>

\* drainPending(), of the 100 ms timer.
Tick ==
    /\ main = "idle"
    /\ UNCHANGED quitting
    /\ TakeQueue
    /\ UNCHANGED <<calls, buckets, filterLevel, newSinceRefresh, page, file, messages,
                   taps, restarts, settled>>

\* The destructor. The threads that log have ended.
Quit ==
    /\ main = "idle" /\ restarts < MaxRestarts
    /\ \A t \in Loggers : calls[t] = Silent
    /\ quitting' = TRUE /\ restarts' = restarts + 1
    /\ TakeQueue
    /\ UNCHANGED <<calls, buckets, filterLevel, newSinceRefresh, page, file, messages,
                   taps, settled>>

\* The lines the file takes of some. It is open here, as HasWork saw to; a batch
\* given to a closed one would be destroyed and settle nothing.
Taken(lines) ==
    IF DiskFaults THEN {Only(lines, kept) : kept \in SUBSET DOMAIN lines} ELSE {lines}

WriteTracked(lines) ==
    \E s \in Taken(lines) : buffer' = buffer \o s /\ logBytes' = logBytes + Len(s)

\* The batch, and the note's way into the bucket.
WriteLines ==
    /\ main = "write"
    /\ WriteTracked(writes)
    /\ settled' = settled + (IF isOpen THEN Len(writes) ELSE 0)
    /\ writes' = <<>>
    /\ IF dropped > 0
       THEN /\ buckets' = [buckets EXCEPT !["warn"] = PushCapped(@, Note)]
            /\ main' = "note"
       ELSE main' = "flush" /\ UNCHANGED buckets
    /\ UNCHANGED <<calls, filterLevel, queue, newSinceRefresh, quitting, dropped, page,
                   isOpen, log, rotated, messages, taps, restarts>>

WriteNote ==
    /\ main = "note"
    /\ WriteTracked(<<Note>>)
    /\ newSinceRefresh' = newSinceRefresh + (IF filterLevel = "warn" THEN 1 ELSE 0)
    /\ settled' = settled + dropped /\ dropped' = 0
    /\ main' = "flush"
    /\ UNCHANGED <<calls, buckets, filterLevel, queue, quitting, writes, page, isOpen,
                   log, rotated, messages, taps, restarts>>

Flush ==
    /\ main = "flush"
    /\ log' = log \o buffer /\ buffer' = <<>>
    /\ UNCHANGED quitting
    /\ main' = IF logBytes < RotateAt THEN AfterFlush ELSE "remove"
    /\ UNCHANGED <<calls, buckets, filterLevel, queue, newSinceRefresh, writes, dropped,
                   page, isOpen, logBytes, rotated, messages, taps, restarts, settled>>

\* rotateIfNeeded(), in its three calls to the file system. A rename does not
\* replace a file.
RemoveRotated ==
    /\ main = "remove" /\ main' = "rename"
    /\ isOpen' = FALSE
    /\ rotated' \in {<<>>} \cup (IF DiskFaults THEN {rotated} ELSE {})
    /\ UNCHANGED <<calls, buckets, filterLevel, queue, newSinceRefresh, flush, page,
                   logBytes, buffer, log, messages, taps, restarts, settled>>

RenameLog ==
    /\ main = "rename" /\ main' = "open"
    /\ \/ rotated = <<>> /\ rotated' = log /\ log' = <<>>
       \/ (rotated # <<>> \/ DiskFaults) /\ UNCHANGED <<log, rotated>>
    /\ UNCHANGED <<calls, buckets, filterLevel, queue, newSinceRefresh, flush, page,
                   isOpen, logBytes, buffer, messages, taps, restarts, settled>>

OpenResults == IF OpenFaults THEN BOOLEAN ELSE {TRUE}

\* MUTANT: the bytes of the rotated file still count.
BytesAfterRotation_Kept == logBytes

BytesAfterRotation == 0

ReopenLog ==
    /\ main = "open"
    /\ isOpen' \in OpenResults /\ logBytes' = BytesAfterRotation
    /\ UNCHANGED quitting
    /\ main' = AfterFlush
    /\ UNCHANGED <<calls, buckets, filterLevel, queue, newSinceRefresh, writes, dropped,
                   page, buffer, log, rotated, messages, taps, restarts, settled>>

----------------------------------------------------------------------------
\* The page.

\* The rest of drainPending(): the count read here is not the one the page reads.
NotifyNew ==
    /\ main = "notify"
    /\ lastNotifiedNew' = newSinceRefresh
    /\ main' = IF newSinceRefresh = lastNotifiedNew THEN "idle" ELSE "show"
    /\ UNCHANGED <<calls, buckets, filterLevel, queue, newSinceRefresh, flush, badge, file,
                   messages, taps, restarts, settled>>

\* newSinceRefreshChanged().
ShowBadge ==
    /\ main = "show" /\ main' = "idle"
    /\ badge' = newSinceRefresh
    /\ UNCHANGED <<calls, buckets, filterLevel, queue, newSinceRefresh, flush,
                   lastNotifiedNew, file, messages, taps, restarts, settled>>

Tap == main = "idle" /\ taps < MaxTaps /\ taps' = taps + 1

SetFilterLevel(level) ==
    /\ Tap /\ level # filterLevel
    /\ filterLevel' = level /\ main' = "snapshot"
    /\ UNCHANGED <<calls, buckets, queue, newSinceRefresh, flush, page, file, messages,
                   restarts, settled>>

\* refresh(), from the button, setLimit() or setFilterLevel(): the snapshot under
\* the lock, the counter after it.
TakeSnapshot ==
    /\ main' = "clear"
    /\ UNCHANGED <<calls, buckets, filterLevel, queue, newSinceRefresh, flush, page, file,
                   messages, restarts, settled>>

Refresh == Tap /\ TakeSnapshot
RefreshAfterSwitch == main = "snapshot" /\ UNCHANGED taps /\ TakeSnapshot

\* MUTANT: what was notified last is not reset.
NotifiedAfterRefresh_Kept == lastNotifiedNew

NotifiedAfterRefresh == 0

ClearNew ==
    /\ main = "clear" /\ main' = "show"
    /\ newSinceRefresh' = 0 /\ lastNotifiedNew' = NotifiedAfterRefresh
    /\ UNCHANGED <<calls, buckets, filterLevel, queue, flush, badge, file, messages,
                   taps, restarts, settled>>

----------------------------------------------------------------------------
\* The process.

\* MUTANT: the newer file is read first.
Files_NewerFirst == log \o rotated

Files == rotated \o log

\* loadPersisted(): the newest of each level, oldest first.
LoadPersisted ==
    [level \in Levels |->
        Newest(Capacity, Only(Files, {i \in DOMAIN Files : Files[i].level = level}))]

Init ==
    /\ calls = [t \in Loggers |-> Silent]
    /\ buckets = [level \in Levels |-> <<>>] /\ filterLevel = "info"
    /\ pendingWrites = <<>> /\ droppedWrites = 0 /\ writeQueueFull = FALSE
    /\ newSinceRefresh = 0 /\ lastNotifiedNew = 0 /\ badge = 0
    /\ main = "idle" /\ quitting = FALSE /\ writes = <<>> /\ dropped = 0
    /\ log = <<>> /\ rotated = <<>> /\ buffer = <<>>
    /\ isOpen \in OpenResults /\ logBytes = 0
    /\ messages = 0 /\ taps = 0 /\ restarts = 0 /\ settled = 0

MemoryIsGone ==
    /\ calls' = [t \in Loggers |-> Silent] /\ filterLevel' = "info"
    /\ pendingWrites' = <<>> /\ droppedWrites' = 0 /\ writeQueueFull' = FALSE
    /\ newSinceRefresh' = 0 /\ lastNotifiedNew' = 0 /\ badge' = 0
    /\ quitting' = FALSE /\ writes' = <<>> /\ dropped' = 0
    /\ buffer' = <<>> /\ settled' = messages

\* The process is killed. Of what QFile buffered, a part may have reached the file.
Crash ==
    /\ Running /\ restarts < MaxRestarts /\ restarts' = restarts + 1
    /\ main' = "dead"
    /\ \E n \in 0 .. Len(buffer) : log' = log \o SubSeq(buffer, 1, n)
    /\ MemoryIsGone
    /\ UNCHANGED <<buckets, isOpen, logBytes, rotated, messages, taps>>

\* The constructor.
Boot ==
    /\ main \in {"off", "dead"} /\ main' = "idle"
    /\ MemoryIsGone
    /\ buckets' = LoadPersisted
    /\ isOpen' \in OpenResults /\ logBytes' = Len(log)
    /\ UNCHANGED <<log, rotated, messages, taps, restarts>>

Writer == WriteLines \/ WriteNote \/ Flush \/ RemoveRotated \/ RenameLog \/ ReopenLog
Page == NotifyNew \/ ShowBadge \/ ClearNew \/ RefreshAfterSwitch
Driver == Refresh \/ \E level \in Levels : SetFilterLevel(level)

Next ==
    \/ \E t \in Loggers :
          (\E level \in Levels : HandleMessage(t, level)) \/ AppendEntry(t) \/ CountNew(t)
    \/ Tick \/ Writer \/ Page \/ Driver
    \/ Quit \/ Crash \/ Boot

Spec == Init /\ [][Next]_vars

----------------------------------------------------------------------------
\* Of the messages that reached the buckets none disappears silently and none is
\* counted twice, with any threads logging during the flush: it waits, or is with
\* the writer, or was written, refused by the disk or told of as dropped. A
\* file that cannot be opened costs none (logbuffermodel.cpp:184), nor does a
\* quit while it is open.
AllAccountedFor ==
    /\ messages = settled + Len(writes) + dropped + Len(pendingWrites) + droppedWrites
    /\ main = "off" /\ isOpen => pendingWrites = <<>> /\ droppedWrites = 0

\* Notes have no number.
Ascends(s) ==
    \A i, j \in DOMAIN s : i < j /\ s[i].id > 0 /\ s[j].id > 0 => s[i].id < s[j].id

\* The files, with what is on its way there, and each level's entries hold the
\* messages in the order they came, none twice, over rotations that fail
\* halfway, crashes and restarts.
OldestFirst ==
    /\ Ascends(Files \o buffer \o writes \o pendingWrites)
    /\ \A level \in Levels : Ascends(buckets[level])

\* Lines leave the files only from the front, and never so that fewer are left than
\* one file has when it is rotated.
KeepsRecent ==
    [][Files' # Files =>
          \/ IsPrefix(Files, Files')
          \/ IsSuffix(Files', Files) /\ Len(Files') >= RotateAt]_vars

\* When the main thread has nothing more to tell, the page shows the count: a message
\* that is counted between the notification and the page's read of it is not
\* forgotten by the next tick.
BadgeCatchesUp ==
    main = "idle" /\ lastNotifiedNew = newSinceRefresh => badge = newSinceRefresh
=============================================================================
