----------------------------- MODULE MCChannels -----------------------------
(* Instances of the server's queues: traffic, the stop, the limiter and    *)
(* its clock, and a stream server. *)
EXTENDS Channels

Quiet == [stream |-> FALSE, from |-> {}, ips |-> {}, junk |-> FALSE, sessions |-> 0,
          packets |-> 0, time |-> FALSE, stop |-> FALSE]

Streams == {[Quiet EXCEPT !.stream = TRUE, !.from = {"a1"}, !.ips = {"t1"},
                          !.sessions = 1, !.stop = TRUE]}

AllScenes ==
  {[Quiet EXCEPT !.from = {"a1"}, !.ips = {"t1", "lan"}, !.sessions = 1, !.packets = 4,
                 !.stop = TRUE, !.junk = TRUE],
   [Quiet EXCEPT !.from = {"a1"}, !.ips = {"t1"}, !.sessions = 2, !.packets = 3,
                 !.stop = TRUE],
   [Quiet EXCEPT !.from = {"a1"}, !.ips = {"t1", "t2"}, !.sessions = 2, !.packets = 1],
   [Quiet EXCEPT !.from = {"a1", "a2", "a3"}, !.junk = TRUE, !.time = TRUE]} \cup Streams
=============================================================================
