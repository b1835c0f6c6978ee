---------------------------- MODULE QualifiedTime ----------------------------
(***************************************************************************)
(* QualifiedTime and QualifiedTimeRange of                                 *)
(* log/include/ignition/transport/log/QualifiedTime.hh.                    *)
(*                                                                         *)
(* A QualifiedTime is indeterminate or a time stamp with one of four      *)
(* qualifiers; a QualifiedTimeRange is a pair of them.  A caller holds one *)
(* QualifiedTime (qt) and one QualifiedTimeRange (range), edits them with  *)
(* the public operations, and the range is used to pick messages of a     *)
(* log by their receive time.  Only the header is in the repository: the  *)
(* behaviour comes from its declarations and doc comments.  How the       *)
(* qualifiers pick a message (Resolve) follows the enumerators' comments. *)
(***************************************************************************)
EXTENDS Integers, Sequences, FiniteSets, FiniteSetsExt

CONSTANTS
    Times,          \* the instants (nanosecond counts) a caller may use
    Null,           \* nullptr, returned by GetTime()/GetQualifier() when indeterminate
    MaxMessages,    \* bound on the messages the recorder appends to the log
    ReuseMovedFrom  \* the caller uses a moved-from object as spec section 5
                    \* allows (TRUE), or only assigns a new value to it (FALSE)

ASSUME Times \subseteq Nat /\ Times # {} /\ Null \notin Times
ASSUME ReuseMovedFrom \in BOOLEAN
ASSUME MaxMessages \in Nat

VARIABLES
    log,        \* the sequence of log::Message values recorded so far
    qt,         \* the caller's QualifiedTime
    range,      \* the caller's QualifiedTimeRange
    nullDeref   \* a member function ran on an object whose dataPtr is null

vars == <<log, qt, range, nullDeref>>

\* enum Qualifier
Qualifiers == {"OrClosestBefore", "ClosestBefore", "OrClosestAfter", "ClosestAfter"}

\* QualifiedTime(_time, _qualifier) and QualifiedTime() (indeterminate)
Pinned(t, q) == [time |-> t, qualifier |-> q]
Indeterminate == [time |-> Null, qualifier |-> Null]

QTValues == {Pinned(t, q) : t \in Times, q \in Qualifiers} \cup {Indeterminate}

IsIndeterminate(x) == x.time = Null

\* An object whose std::unique_ptr<Implementation> dataPtr is null: what the
\* defaulted move constructor and move assignment leave behind.
Hollow == [dataPtr |-> Null]

\* log::Message(_timeRecv, _data, _dataLen, _type, _typeLen, _topic,
\* _topicLen): the payload, type and topic are copied into the object and
\* never read by a query, so only the receive time is kept.
Message(t) == [timeRecv |-> t]

\* Message::TimeReceived()
TimeReceived(m) == m.timeRecv

LogTimes == {TimeReceived(log[i]) : i \in DOMAIN log}

\* QualifiedTimeRange::Valid(): an indeterminate end leaves the range open;
\* otherwise finish must not come before start.  Qualifiers play no part.
Valid(r) ==
    \/ IsIndeterminate(r.start)
    \/ IsIndeterminate(r.finish)
    \/ r.start.time <= r.finish.time

-----------------------------------------------------------------------------
(* Which message of the log an endpoint picks                              *)

Greatest(S) == IF S = {} THEN {} ELSE {Max(S)}
Least(S) == IF S = {} THEN {} ELSE {Min(S)}

\* Seeded fault: exact-or-closest-before takes the earliest earlier message.
ResolveEarliestBefore(x) ==
    LET t == x.time IN
    CASE x.qualifier = "OrClosestBefore" -> Least({m \in LogTimes : m <= t})
      [] x.qualifier = "ClosestBefore"   -> Greatest({m \in LogTimes : m < t})
      [] x.qualifier = "OrClosestAfter"  -> Least({m \in LogTimes : m >= t})
      [] x.qualifier = "ClosestAfter"    -> Least({m \in LogTimes : m > t})

\* The receive time a pinned QualifiedTime picks from the log, as a set with
\* at most one element: exact match or closest before, closest strictly
\* before, exact match or closest after, closest strictly after.
Resolve(x) ==
    LET t == x.time IN
    CASE x.qualifier = "OrClosestBefore" -> Greatest({m \in LogTimes : m <= t})
      [] x.qualifier = "ClosestBefore"   -> Greatest({m \in LogTimes : m < t})
      [] x.qualifier = "OrClosestAfter"  -> Least({m \in LogTimes : m >= t})
      [] x.qualifier = "ClosestAfter"    -> Least({m \in LogTimes : m > t})

\* An indeterminate start reaches as far into the past as the log goes, an
\* indeterminate finish goes on to its end.
ResolveStart(r) == IF IsIndeterminate(r.start) THEN Least(LogTimes) ELSE Resolve(r.start)
ResolveFinish(r) == IF IsIndeterminate(r.finish) THEN Greatest(LogTimes) ELSE Resolve(r.finish)

-----------------------------------------------------------------------------
(* Operations                                                              *)

\* The log starts empty.  The caller starts from QualifiedTime() and
\* AllTime().
Init ==
    /\ log = <<>>
    /\ qt = Indeterminate
    /\ range = [start |-> Indeterminate, finish |-> Indeterminate]
    /\ nullDeref = FALSE

\* QualifiedTime::SetTime(_time, _qualifier)
SetTime(t, q) ==
    /\ qt' = Pinned(t, q)
    /\ UNCHANGED <<log, range>>

\* Seeded fault: Clear() drops the time but keeps the qualifier.
ClearKeepsQualifier ==
    /\ qt' = [time |-> Null, qualifier |-> qt.qualifier]
    /\ UNCHANGED <<log, range>>

\* QualifiedTime::Clear()
Clear ==
    /\ qt' = Indeterminate
    /\ UNCHANGED <<log, range>>

\* qt = QualifiedTime(...): move assignment from a temporary; the defaulted
\* operator takes the temporary's dataPtr and reads neither object.
Assign(x) ==
    /\ qt' = x
    /\ UNCHANGED <<log, range>>

\* QualifiedTime other(std::move(qt)): the defaulted move constructor.
MoveQt ==
    /\ qt' = Hollow
    /\ UNCHANGED <<log, range>>

\* range = QualifiedTimeRange(_start, _finish), From(_start), Until(_finish)
\* or AllTime(): a new range, moved into the caller's.
Construct(s, f) ==
    /\ range' = [start |-> s, finish |-> f]
    /\ UNCHANGED <<log, qt>>

NewRange(x) == Construct(qt, x)
From == Construct(qt, Indeterminate)
Until == Construct(Indeterminate, qt)
AllTime == Construct(Indeterminate, Indeterminate)

\* QualifiedTimeRange other(std::move(range)): the defaulted move
\* constructor.
MoveRange ==
    /\ range' = Hollow
    /\ UNCHANGED <<log, qt>>

\* SetStart(qt): the start is replaced whether or not the range is then
\* valid; the bool it returns (Valid() of the new range) changes no state.
SetStart ==
    /\ range' = [range EXCEPT !.start = qt]
    /\ UNCHANGED <<log, qt>>

\* SetFinish(qt)
SetFinish ==
    /\ range' = [range EXCEPT !.finish = qt]
    /\ UNCHANGED <<log, qt>>

\* SetRange(qt, _finish)
SetRange(f) ==
    /\ range' = [start |-> qt, finish |-> f]
    /\ UNCHANGED <<log, qt>>

\* Spec section 6, the log recorder: for each captured publication it
\* constructs a Message with the current receive instant and appends it;
\* the log is ordered by ascending receive time.
Record(t) ==
    /\ Len(log) < MaxMessages
    /\ \A i \in DOMAIN log : TimeReceived(log[i]) <= t
    /\ log' = Append(log, Message(t))
    /\ UNCHANGED <<qt, range, nullDeref>>

\* A call that runs member functions of the objects in touched: with a
\* moved-from object among them, the pimpl code dereferences its null
\* dataPtr and the caller's process stops there; a caller that never
\* reuses moved-from objects does not make the call.
Call(touched, A) ==
    IF Hollow \in touched
      THEN /\ ReuseMovedFrom
           /\ nullDeref' = TRUE
           /\ UNCHANGED <<log, qt, range>>
      ELSE A /\ UNCHANGED nullDeref

Next ==
    /\ ~nullDeref
    /\ \/ \E t \in Times, q \in Qualifiers : Call({qt}, SetTime(t, q))
       \/ Call({qt}, Clear)
       \/ \E x \in QTValues : Assign(x) /\ UNCHANGED nullDeref
       \/ MoveQt /\ UNCHANGED nullDeref
       \/ \E x \in QTValues : Call({qt}, NewRange(x)) \/ Call({qt, range}, SetRange(x))
       \/ Call({qt}, From) \/ Call({qt}, Until)
       \/ AllTime /\ UNCHANGED nullDeref
       \/ MoveRange /\ UNCHANGED nullDeref
       \/ Call({qt, range}, SetStart) \/ Call({qt, range}, SetFinish)
       \/ \E t \in Times : Record(t)

Spec == Init /\ [][Next]_vars

-----------------------------------------------------------------------------
(* Properties                                                              *)

TypeOK ==
    /\ log \in Seq([timeRecv : Times])
    /\ qt \in QTValues \cup {Hollow}
    /\ range \in [start : QTValues, finish : QTValues] \cup {Hollow}
    /\ nullDeref \in BOOLEAN

\* How early a qualifier leans: closest-before picks earliest, then exact-or-
\* before, exact-or-after, and closest-after picks latest.
Lean == [ClosestBefore |-> 0, OrClosestBefore |-> 1,
         OrClosestAfter |-> 2, ClosestAfter |-> 3]

\* A range picks its messages in order: every message its start picks is
\* received no later than every message its finish picks.
PicksInOrder(r) == \A a \in ResolveStart(r), b \in ResolveFinish(r) : a <= b

\* A valid range whose start qualifier leans no later than its finish
\* qualifier (or with an indeterminate end) picks its endpoints in order,
\* for every log.
OrderedWhenQualifiersAgree ==
    range # Hollow =>
        ((/\ Valid(range)
          /\ ~IsIndeterminate(range.start) /\ ~IsIndeterminate(range.finish) =>
                Lean[range.start.qualifier] <= Lean[range.finish.qualifier])
         => PicksInOrder(range))

\* Spec section 5: moving a value leaves the source equivalent to a fresh
\* default (indeterminate) value, so a caller may go on using it, e.g. as
\* the open start of a range.  No call ever runs on a null dataPtr.
NoNullPimplUse == ~nullDeref

=============================================================================
