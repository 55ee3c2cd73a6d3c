---------------------------- MODULE AudioClient ------------------------------
(***************************************************************************)
(* The Java client of the jukebox, together with the server it talks to    *)
(* (JukeboxServer): the main thread reads commands and opens a connection  *)
(* for each that needs one; a song is played by a thread of its own, which *)
(* the next play, stop or exit kills with Thread.stop().                   *)
(*                                                                         *)
(* The client's side of a connection is what has come of the response and  *)
(* what has been read of it; in.available() is the difference.  Only the   *)
(* client closes connections, and thus ends the responses.                 *)
(***************************************************************************)
EXTENDS JukeboxServer

CONSTANTS
  Plays,      \* the commands that play a song
  Broken,     \* those of them whose file is no audio file
  BadInfo     \* info with an argument that is no number

ASSUME ClientAssumption == /\ Broken \subseteq Plays /\ Plays \subseteq Commands
                           /\ BadInfo \in Commands \ Plays

\* This client among those of JukeboxServer: Integer.valueOf lets nothing through
\* that std::stoi would not read, a connection is for one command, and is closed.
JavaClient == Fatal = {} /\ MaxCommands = 1 /\ MayLeave

VARIABLES
  pc,         \* of main: "prompt", "connect", "write", then "open" for a song or
              \* "spin" and "read"; "exited" after exit or an exception
  command,    \* the command being carried out
  socket,     \* the connection it uses
  player,     \* the connection whose thread the variable player holds, or 0
  threads,    \* what the thread of each song does; "failed" where there is none,
              \* because its constructor threw
  killed,     \* the threads that Thread.stop() was called on
  came, taken \* chunks of c's response that have come, that have been read

mvars == <<pc, command, socket, player, killed>>
cvars == <<mvars, threads, came, taken>>
rest  == <<accepted, fdTable, interest, clients, batch, responses, alive>>

ClientInit ==
  /\ Init
  /\ pc = "prompt" /\ command = BadInfo /\ socket = 0 /\ player = 0
  /\ threads = [c \in Conns |-> "none"] /\ killed = {}
  /\ came = [c \in Conns |-> 0] /\ taken = [c \in Conns |-> 0]

-----------------------------------------------------------------------------
(* The main thread.                                                        *)

available(c) == came[c] - taken[c]

\* player.stop(): a ThreadDeath is thrown wherever the thread is.  In run() it
\* leads to the finally block.  Before the try is entered, or in the finally
\* block and before it has closed ais, it cuts the thread off, and what run()
\* would have closed stays open.
StopPlayer ==
  /\ killed' = killed \cup ({player} \ {0})
  /\ \/ UNCHANGED threads
     \/ /\ player # 0 /\ threads[player] \in {"started", "ending"}
        /\ threads' = [threads EXCEPT ![player] = "cut"]

LetPlay == UNCHANGED <<killed, threads>>

CloseSocket(c) == gone' = gone \cup {c} /\ UNCHANGED <<arrived, inbox, asked, rest>>

Type(commands) ==
  /\ pc = "prompt" /\ arrived < MaxConns
  /\ command' \in commands
  /\ pc' = "connect"
  /\ UNCHANGED <<socket, player, came, taken, vars>>

\* A changed form of TypePlay: the song that is playing is left alone.
TypePlayOver == Type(Plays) /\ LetPlay

TypePlay == Type(Plays) /\ StopPlayer

\* list, or info
TypeAsk == Type(Commands \ Plays) /\ LetPlay

\* stop, or play with an argument that is no number: the exception is caught
\* when the song has been stopped already; or exit
TypeStop ==
  /\ pc = "prompt"
  /\ StopPlayer
  /\ pc' \in {"prompt", "exited"}
  /\ UNCHANGED <<command, socket, player, came, taken, vars>>

\* new Socket(ip, port)
OpenSocket ==
  /\ pc = "connect"
  /\ Connect
  /\ socket' = arrived'
  /\ pc' = "write"
  /\ UNCHANGED <<command, player, killed, threads, came, taken>>

\* Nobody listens: only play is inside its try.
ConnectFails ==
  /\ pc = "connect" /\ ~alive
  /\ pc' = IF command \in Plays THEN "prompt" ELSE "exited"
  /\ UNCHANGED <<command, socket, player, killed, threads, came, taken, vars>>

WriteCommand ==
  /\ pc = "write" /\ alive /\ command # BadInfo
  /\ inbox' = [inbox EXCEPT ![socket] = Append(@, command)]
  /\ asked' = [asked EXCEPT ![socket] = @ + 1]
  /\ pc' = IF command \in Plays THEN "open" ELSE "spin"
  /\ UNCHANGED <<arrived, gone, rest, command, socket, player, killed, threads,
                 came, taken>>

\* The server has died since: the write fails, or is not noticed.  list is in
\* no try.
WriteFails ==
  /\ pc = "write" /\ ~alive /\ command # BadInfo
  /\ pc' \in IF command \in Plays THEN {"prompt", "open"}
             ELSE {"prompt", "exited", "spin"}
  /\ UNCHANGED <<command, socket, player, killed, threads, came, taken, vars>>

Refuse ==
  /\ pc = "write" /\ command = BadInfo
  /\ pc' = "prompt"
  /\ UNCHANGED <<command, socket, player, killed, threads, came, taken>>

\* A changed form of BadIndex: the exception skips the close.
BadIndexLeaks == Refuse /\ UNCHANGED vars

\* info opens its socket before it looks at its argument, and closes it.
BadIndex == Refuse /\ CloseSocket(socket)

Take(c) == taken' = [taken EXCEPT ![c] = @ + 1]

ReadBeginning ==
  /\ pc = "open" /\ available(socket) > 0
  /\ Take(socket)
  /\ UNCHANGED <<command, socket, killed, came, vars>>

\* getAudioInputStream has read a part of the file and wants more of it, be it to
\* find the beginning of a song in what is none.
ReadOn == ReadBeginning /\ UNCHANGED <<pc, threads, player>>

\* The constructor of AudioPlayerThread has what it needs, and a sound line.
StartPlayer ==
  /\ ReadBeginning
  /\ command \notin Broken
  /\ threads' = [threads EXCEPT ![socket] = "started"]
  /\ player' = socket
  /\ pc' = "prompt"

\* It throws, of a file that is no song or where no line can be had, and the
\* socket stays open.
StartThrows ==
  /\ ReadBeginning
  /\ threads' = [threads EXCEPT ![socket] = "failed"]
  /\ pc' = "prompt"
  /\ UNCHANGED player

StartFails ==
  /\ pc = "open" /\ ~alive /\ available(socket) = 0
  /\ pc' = "prompt"
  /\ UNCHANGED <<command, socket, player, killed, threads, came, taken, vars>>

SpinUntil(n) ==
  /\ pc = "spin" /\ available(socket) >= n
  /\ pc' = "read"
  /\ UNCHANGED <<command, socket, player, killed, threads, came, taken, vars>>

\* A changed form of StopSpinning: it waits for a buffer of three chunks.
StopSpinningLate == SpinUntil(3)

\* while (in.available() == 0) {}
StopSpinning == SpinUntil(1)

\* while (in.available() > 0) ...
ReadResponse ==
  /\ pc = "read" /\ available(socket) > 0
  /\ Take(socket)
  /\ UNCHANGED <<pc, command, socket, player, killed, threads, came, vars>>

CloseResponse ==
  /\ pc = "read" /\ available(socket) = 0
  /\ CloseSocket(socket)
  /\ pc' = "prompt"
  /\ UNCHANGED <<command, socket, player, killed, threads, came, taken>>

Main == \/ OpenSocket \/ ConnectFails \/ WriteCommand \/ WriteFails \/ BadIndex
        \/ ReadOn \/ StartPlayer \/ StartThrows \/ StartFails
        \/ StopSpinning \/ ReadResponse \/ CloseResponse

-----------------------------------------------------------------------------
(* The thread of a song.  Thread.stop() has no effect on a thread inside a *)
(* read of the socket: it comes to its finally block when it comes out of  *)
(* it, and there it closes the streams and with them the socket, unless it *)
(* is stopped once more.                                                   *)

GoesOn(c, state) == /\ threads' = [threads EXCEPT ![c] = state]
                    /\ UNCHANGED vars

ReadSong(c) ==
  /\ threads[c] = "reading" /\ available(c) > 0
  /\ Take(c)
  /\ GoesOn(c, IF c \in killed THEN "ending" ELSE "writing")
  /\ UNCHANGED <<mvars, came>>

\* A changed form of WriteSong: a stopped line never has room for the rest.
WriteSongStuck(c) ==
  /\ threads[c] \in {"started", "writing"} /\ c \notin killed
  /\ GoesOn(c, "reading")
  /\ UNCHANGED <<mvars, came, taken>>

\* Writing to the sound line, waiting for room in it; nothing the first time
WriteSong(c) ==
  /\ threads[c] \in {"started", "writing"}
  /\ GoesOn(c, IF c \in killed THEN "ending" ELSE "reading")
  /\ UNCHANGED <<mvars, came, taken>>

\* read returns -1 or fails when the server has died, and only then.
SongEnds(c) ==
  /\ threads[c] = "reading" /\ ~alive /\ available(c) = 0
  /\ GoesOn(c, "ending")
  /\ UNCHANGED <<mvars, came, taken>>

\* The finally block: closeQuietly(ais) closes the socket.
Ends(c) ==
  /\ threads[c] = "ending"
  /\ threads' = [threads EXCEPT ![c] = "ended"]
  /\ CloseSocket(c)
  /\ UNCHANGED <<mvars, came, taken>>

Song(c) == ReadSong(c) \/ WriteSong(c) \/ SongEnds(c) \/ Ends(c)

\* TCP brings c's next chunk.
Come(c) ==
  /\ came[c] < sent[c] /\ c \notin gone
  /\ came' = [came EXCEPT ![c] = @ + 1]
  /\ UNCHANGED <<mvars, threads, taken, vars>>

ClientSteps == \/ TypePlay \/ TypeAsk \/ TypeStop \/ Main
               \/ \E c \in Conns : Song(c) \/ Come(c)

SystemNext == ClientSteps \/ (ServerNext /\ UNCHANGED cvars)

SystemSpec == ClientInit /\ [][SystemNext]_<<vars, cvars>>

\* Both programs' threads are scheduled; nobody need type anything.
FairSystemSpec ==
  /\ SystemSpec
  /\ WF_<<vars, cvars>>(ServerNext /\ UNCHANGED cvars)
  /\ WF_<<vars, cvars>>(Main)
  /\ \A c \in Conns : WF_<<vars, cvars>>(Song(c)) /\ WF_<<vars, cvars>>(Come(c))

-----------------------------------------------------------------------------
(* Properties.                                                             *)

\* The songs whose threads run, and may be heard
Playing == {c \in Conns : threads[c] \in {"started", "reading", "writing", "ending"}}

\* Two songs never play over each other: every song still playing has been told
\* to stop, except the one that stop, exit and the next play will stop.
OneSongAtATime == Playing \subseteq killed \cup {player}

\* The client waits at its prompt with no connection open but those of the songs
\* whose threads run. Two kinds are left behind: that of a song whose thread
\* could not be made, and that of a thread stopped as it began or as it ended.
SocketsClosed ==
  pc = "prompt" /\ alive =>
    \A c \in 1 .. arrived :
      c \in gone \/ c \in Playing \/ threads[c] \in {"failed", "cut"}

\* stop, exit and the next play end the song they are for, wherever its thread
\* is; but one that has played all of it waits for an end of file that the
\* server never sends, and neither ends nor lets the program end.
StopTakesEffect ==
  \A c \in Conns :
    (c \in killed) ~> \/ threads[c] \in {"ended", "cut"}
                      \/ threads[c] = "reading" /\ taken[c] = owed[c]

\* A loop that waits for the first byte of an empty response, or the constructor
\* of a song that has read the whole file and wants more: the server closes no
\* connection, so neither comes to an end.
WaitsForEver ==
  /\ pc \in {"spin", "open"} /\ inbox[socket] = <<>>
  /\ taken[socket] = owed[socket]

\* A command returns to the prompt although it is waited for in two loops that
\* only look at available() and in a constructor that reads on, as long as the
\* server lives; but where the whole response has been read without success.
PromptReturns ==
  pc \notin {"prompt", "exited"}
    ~> pc \in {"prompt", "exited"} \/ ~alive \/ WaitsForEver
=============================================================================
