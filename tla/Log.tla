-------------------------------- MODULE Log --------------------------------
(***************************************************************************)
(* The log (log.c) and the end of the process (battery.c, SOCKET_free).    *)
(* Lines are gathered in log_object and written when LOG_BUFFER characters *)
(* are there, or by LOG_save.  A signal runs app_terminate, which logs,    *)
(* saves and exits, in the middle of whatever the program was doing; the   *)
(* interrupted function is never resumed.                                  *)
(*                                                                         *)
(* A character is the number of its place in all that was ever logged, so  *)
(* the content of the file tells what is missing, repeated or out of       *)
(* order.  A step is one call of a library function on the buffer or the   *)
(* file; todo lists the steps still to be made, the present one first.     *)
(* The array is as long as the code makes it.  A text that does not fit,   *)
(* with its NUL, is written behind it: that is "overrun", and nothing is   *)
(* said of what the process does from there.                               *)
(***************************************************************************)
EXTENDS Integers, Sequences

CONSTANTS LogBuffer,    \* LOG_BUFFER, 10240 in shared.h
          Lines,        \* lengths of lines, 1..STD_BUFF_SIZE - 1 in the code
          Memory,       \* size of log_object, LOG_BUFFER + STD_BUFF_SIZE
          FreeLines,    \* how many lines SOCKET_free logs
          MaxTrouble,   \* bound on the signals and failures of one execution
          MaxLogged,    \* bound on the characters logged before the end
          Faults        \* which of "open", "close", "chdir" may fail

ASSUME LogBufferAssumption == LogBuffer \in Nat \ {0}
ASSUME LinesAssumption == Lines \subseteq Nat \ {0}
ASSUME MemoryAssumption ==
  Memory \in Nat /\ Memory > LogBuffer /\ \A n \in Lines : LogBuffer + n < Memory
ASSUME FreeLinesAssumption == FreeLines \in Nat
ASSUME BoundsAssumption == MaxTrouble \in Nat /\ MaxLogged \in Nat

VARIABLES log_object,   \* the buffer; 0 is the character NUL
          len,          \* len of LOG_print: how far the text passes LOG_BUFFER
          log_txt,      \* the content of the file
          logged,       \* characters logged so far
          todo,         \* steps to be made
          atexit,       \* SOCKET_free: "none", "registered" or "called"
          signals,      \* signals delivered
          failures      \* failed calls: opening or closing the file, or chdir

vars == <<log_object, len, log_txt, logged, todo, atexit, signals, failures>>

Nul == 0
Steps == {"print", "tail", "write", "clear", "save", "exit", "end", "overrun"}

\* The text in the buffer ends within the array: strlen finds a NUL.
TextEnds == \E i \in 1..Memory : log_object[i] = Nul

TypeOK == /\ log_object \in [1..Memory -> Nat] /\ TextEnds
          /\ len \in Nat
          /\ log_txt \in Seq(Nat)
          /\ logged \in Nat
          /\ todo \in Seq(Steps)
          /\ atexit \in {"none", "registered", "called"}
          /\ signals \in 0..MaxTrouble /\ failures \in 0..MaxTrouble

Init == /\ log_object = [i \in 1..Memory |-> Nul]
        /\ len = 0 /\ logged = 0 /\ signals = 0
        /\ log_txt = <<>> /\ todo = <<>>
        /\ atexit = "none" /\ failures = 0

\* strlen, the first n characters, strncat and memset
Strlen(s) == (CHOOSE i \in 1..Memory : /\ s[i] = Nul
                                       /\ \A j \in 1..i-1 : s[j] # Nul) - 1
Chars(s, n) == SubSeq(s, 1, n)
Strncat(s, text) ==
  [i \in 1..Memory |-> IF i <= Strlen(s) THEN s[i]
                       ELSE IF i <= Strlen(s) + Len(text) THEN text[i - Strlen(s)]
                       ELSE IF i = Strlen(s) + Len(text) + 1 THEN Nul
                       ELSE s[i]]
Fits(s, text) == Strlen(s) + Len(text) < Memory
Memset(s) == [i \in 1..Memory |-> IF i <= LogBuffer THEN Nul ELSE s[i]]

Trouble == signals + failures
MayFail(call) == call \in Faults /\ Trouble < MaxTrouble

Doing(step) == todo # <<>> /\ Head(todo) = step

\* Mutant: len is computed for a buffer that is not full, too.
OverrunAlways(text) == Strlen(text) - LogBuffer
Overrun(text) == IF Strlen(text) > LogBuffer THEN Strlen(text) - LogBuffer ELSE 0

\* Mutant: a buffer that is exactly full is not written.
FullLate(text) == Strlen(text) > LogBuffer
Full(text) == Strlen(text) >= LogBuffer

Line(n) == [i \in 1..n |-> logged + i]
Behind == SubSeq(log_object, LogBuffer + 1, LogBuffer + len)

\* LOG_print up to its test for a full buffer.
PrintLine(n) ==
  LET text == Strncat(log_object, Line(n))
  IN /\ Doing("print")
     /\ Fits(log_object, Line(n))
     /\ log_object' = text
     /\ logged' = logged + n
     /\ len' = Overrun(text)
     /\ todo' = (IF Full(text) THEN <<"tail", "write", "clear">> ELSE <<>>) \o Tail(todo)
     /\ UNCHANGED <<log_txt, atexit, signals, failures>>

\* What lies behind LOG_BUFFER is appended to the buffer.
CopyTail ==
  /\ Doing("tail")
  /\ Fits(log_object, Behind)
  /\ log_object' = Strncat(log_object, Behind)
  /\ todo' = Tail(todo)
  /\ UNCHANGED <<len, log_txt, logged, atexit, signals, failures>>

\* The line or the copy of the tail is too long for what is left of the array.
OverrunArray ==
  /\ \/ Doing("print") /\ \E n \in Lines : ~Fits(log_object, Line(n))
     \/ Doing("tail") /\ ~Fits(log_object, Behind)
  /\ todo' = <<"overrun">>
  /\ UNCHANGED <<log_object, len, log_txt, logged, atexit, signals, failures>>

\* Mutants: the characters behind LOG_BUFFER are not written, or written first.
WriteWith(text) ==
  /\ Doing("write")
  /\ log_txt' = log_txt \o text
  /\ todo' = Tail(todo)
  /\ UNCHANGED <<log_object, len, logged, atexit, signals, failures>>
WriteShort == WriteWith(Chars(log_object, LogBuffer))
WriteTailFirst == WriteWith(Behind \o Chars(log_object, LogBuffer))

\* LOG_print writes the buffer.  A file that cannot be opened is skipped; if it
\* cannot be closed that is logged, with the buffer still full; every
\* further failure would append a longer tail.
Write ==
  /\ Doing("write")
  /\ \/ /\ log_txt' = log_txt \o Chars(log_object, LogBuffer + len)
        /\ todo' = Tail(todo)
        /\ UNCHANGED failures
     \/ /\ MayFail("open")
        /\ failures' = failures + 1
        /\ todo' = Tail(todo)
        /\ UNCHANGED log_txt
     \/ /\ MayFail("close")
        /\ failures' = failures + 1
        /\ log_txt' \in {log_txt, log_txt \o Chars(log_object, LogBuffer + len)}
        /\ todo' = <<"print">> \o Tail(todo)
  /\ UNCHANGED <<log_object, len, logged, atexit, signals>>

\* The first LOG_BUFFER characters are zeroed, then chdir.
Clear ==
  /\ Doing("clear")
  /\ log_object' = Memset(log_object)
  /\ \/ todo' = Tail(todo) /\ UNCHANGED failures
     \/ /\ MayFail("chdir")
        /\ failures' = failures + 1
        /\ todo' = <<"print">> \o Tail(todo)
  /\ UNCHANGED <<len, log_txt, logged, atexit, signals>>

\* LOG_save: a file that cannot be opened ends the process.
Save ==
  /\ Doing("save")
  /\ \/ /\ log_txt' = log_txt \o Chars(log_object, Strlen(log_object))
        /\ todo' = Tail(todo)
        /\ UNCHANGED failures
     \/ /\ MayFail("open")
        /\ failures' = failures + 1
        /\ todo' = <<"print", "exit">>
        /\ UNCHANGED log_txt
     \/ /\ MayFail("close")
        /\ failures' = failures + 1
        /\ log_txt' \in {log_txt, log_txt \o Chars(log_object, Strlen(log_object))}
        /\ todo' = Tail(todo)
  /\ UNCHANGED <<log_object, len, logged, atexit, signals>>

LOG_save == <<"save", "clear">>

\* Mutant: SOCKET_free does not save what it logs.
SOCKET_free_unsaved == [i \in 1..FreeLines |-> "print"]
SOCKET_free == [i \in 1..FreeLines |-> "print"] \o LOG_save

\* exit runs SOCKET_free if CORE_initialize has come that far.
Exit ==
  /\ Doing("exit")
  /\ IF atexit = "registered"
     THEN atexit' = "called" /\ todo' = SOCKET_free \o <<"end">>
     ELSE UNCHANGED atexit /\ todo' = <<"end">>
  /\ UNCHANGED <<log_object, len, log_txt, logged, signals, failures>>

\* The program itself logs, saves, registers SOCKET_free, or gives up: at once,
\* after logging that the configuration is bad, or when the network fails.
Program ==
  /\ todo = <<>>
  /\ logged < MaxLogged
  /\ \/ todo' \in {<<"print">>, LOG_save, <<"exit">>} /\ UNCHANGED atexit
     \/ /\ atexit = "none"
        /\ \/ atexit' = "registered" /\ UNCHANGED todo
           \/ todo' = <<"print">> \o LOG_save \o <<"exit">> /\ UNCHANGED atexit
     \/ /\ atexit = "registered"
        /\ todo' = SOCKET_free \o <<"exit">>
        /\ UNCHANGED atexit
  /\ UNCHANGED <<log_object, len, log_txt, logged, signals, failures>>

\* Mutant: the handler returns.
TerminateReturns == <<"print">> \o SOCKET_free \o <<"print">> \o LOG_save
app_terminate ==
  <<"print">> \o SOCKET_free \o <<"print">> \o LOG_save \o <<"exit">>

Signal ==
  /\ Trouble < MaxTrouble
  /\ ~(Doing("end") \/ Doing("overrun"))
  /\ signals' = signals + 1
  /\ todo' = app_terminate
  /\ UNCHANGED <<log_object, len, log_txt, logged, atexit, failures>>

\* A call that has been begun goes on.
Step == \/ \E n \in Lines : PrintLine(n)
        \/ CopyTail \/ OverrunArray \/ Write \/ Clear \/ Save \/ Exit

Next == Step \/ Program \/ Signal

\* The process is scheduled; nothing says that it ever logs anything or ends.
Spec == Init /\ [][Next]_vars /\ WF_vars(Step)

-----------------------------------------------------------------------------
All(n) == [i \in 1..n |-> i]

\* While no signal has come and no call failed, file and buffer hold
\* between two calls all that was logged, once and in order: what lies behind
\* LOG_BUFFER is neither lost nor seen again when the buffer fills the next time.
LoggedOnce ==
  /\ signals = 0 /\ failures = 0
  /\ \A step \in {"tail", "write", "clear", "overrun"} : ~Doing(step)
  => log_txt \o Chars(log_object, Strlen(log_object)) = All(logged)

\* A signal may make text appear twice, but whatever call it interrupts, none
\* that was logged is missing when the process has ended; nor when it gives up
\* after SOCKET_free was registered.
NothingLost ==
  Doing("end") /\ failures = 0 /\ (signals > 0 \/ atexit = "called")
    => 1..logged \subseteq {log_txt[p] : p \in DOMAIN log_txt}

\* Whatever is interrupted or fails, a line is never first seen in the file after
\* a line that was logged later.
InOrder ==
  \A p \in DOMAIN log_txt : \A q \in p+1..Len(log_txt) :
    log_txt[q] < log_txt[p] => \E r \in 1..p-1 : log_txt[r] = log_txt[q]

\* While no signal has come and no call failed, the array is overrun by no line, but
\* by a tail alone, and only by one that does not fit behind the line a second
\* time: len of half of STD_BUFF_SIZE or more, from a line that is longer still.
OnlyLongTailsOverrun ==
  Doing("overrun") /\ signals = 0 /\ failures = 0
    => LogBuffer + 2 * len >= Memory /\ \E n \in Lines : n > len

\* A signal ends the process, whatever call it interrupts: also the SOCKET_free
\* that exit has begun, which is then run again, and a LOG_print that finds the
\* buffer full or fails and logs that in turn; unless the array is overrun.
SignalEnds == signals > 0 ~> Doing("end") \/ Doing("overrun")
=============================================================================
