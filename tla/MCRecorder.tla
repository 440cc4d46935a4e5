----------------------------- MODULE MCRecorder -----------------------------
(* Recorder for TLC: its command lines.                                    *)
EXTENDS Recorder

Argument(cmd, num, name) == [cmd |-> cmd, num |-> num, off |-> num, name |-> name]
Plain(cmds) == {Argument(c, 0, "") : c \in cmds}
Output == Argument("output", 0, "file")

\* What changes the course of a run.
Mixed == Plain({"keypress", "signal", "splitWait", "circular", "nopreview"})
         \cup {Argument("timeout", n, "") : n \in {0, 500}}
         \cup {Argument("timed", 1000, ""), Argument("segment", 60, ""),
               Argument("framerate", 90, ""), Argument("demo", Nothing, ""),
               Argument("initial", 0, "pause"), Argument("start", 2, ""),
               Argument("output", 0, "-"), Argument("output", Nothing, "")}
         \cup {Argument(c, 0, "file") : c \in {"vectors", "savePts", "raw"}}

\* The video file and two more; circular recordings that do not wait, and of
\* four cells, none, one and two, one whose length wraps around to one cell and
\* one to a negative number.
Filed == {a \in Mixed : a.cmd \notin {"output", "nopreview", "circular"}}
Circular == <<Argument("circular", 0, ""), Output>>
Lines == {<<a, b>> : a, b \in Mixed} \cup {<<Output, a, b>> : a, b \in Filed}
         \cup {Circular \o <<Argument("keypress", 0, ""), Argument("timeout", n, "")>> :
                 n \in {5000, 500, 2000, 3000, 65000, 100000}}
         \cup {Circular, <<Argument("listen", 0, ""), Argument("output", 0, "udp")>>}

AllFaults == {"component", "connection", "port", "file", "memory", "write", "pool", "send",
              "interrupt"}
=============================================================================
