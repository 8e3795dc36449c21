---------------------------- MODULE MCHpMonitor ----------------------------
(* Small instances of HpMonitor for TLC.                                   *)
EXTENDS HpMonitor, TLC

CONSTANTS t1, t2, s1, s2, pt

TwoThreads  == {t1, t2}
AllHandles  == {s1, s2, pt}
DefaultOnly == {pt}

\* Both threads share a stream, and one of them has its default stream too.
\* (Its waits do not fail: the fallback of the watcher, a synchronization by
\* handle, would find the default stream of the watcher instead.)
SharedAndOwn ==
  [mode |-> "deferred", quiet |-> TRUE,
   uses |-> {<<t1, s1>>, <<t2, s1>>, <<t1, pt>>}, destroys |-> {},
   faults |-> {"watcher", "launch", "record", "drain"}]

\* Two streams, of which one can be destroyed, and every failure.
TwoStreams ==
  [mode |-> "deferred", quiet |-> FALSE,
   uses |-> {<<t1, s1>>, <<t2, s2>>}, destroys |-> {s1},
   faults |-> {"watcher", "launch", "record", "wait", "fallback", "drain"}]

Blocking == [SharedAndOwn EXCEPT !.mode = "blocking"]

\* More streams than slots.
Query ==
  [mode |-> "query", quiet |-> FALSE,
   uses |-> {<<t1, s1>>, <<t1, s2>>, <<t2, pt>>}, destroys |-> {},
   faults |-> {"watcher", "launch", "record", "fallback", "drain"}]

MainSetups == {SharedAndOwn, TwoStreams, Blocking, Query}

\* Two threads, each with what it calls its default stream.
TwoDefaults ==
  [SharedAndOwn EXCEPT !.uses = TwoThreads \X {pt}, !.faults = {}]

DefaultSetups == {TwoDefaults}
============================================================================
