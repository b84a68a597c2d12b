------------------------------ MODULE MCServer ------------------------------
(* Values of the constants of both servers for TLC. *)
EXTENDS Server, TLC

CONSTANTS index, page, secret, locked, missing, empty, bare, folder

MCClients == {5, 6}
MCAbsent == -1
MCSizes == {0, 1, 2}
JustThree == {3}      \* files can only grow
Disk12 == index :> 1 @@ page :> 2
Disk8 == Disk12 @@ secret :> 1 @@ locked :> 1 @@ empty :> 0
         @@ missing :> -1 @@ bare :> -1 @@ folder :> -1
Disk3 == Disk12 @@ missing :> -1
JustSecret == {secret}
JustLocked == {locked}
OneClient == {5}
LowClients == {4, 5}
NoFaults == {}
FinOnly == {"fin"}
RudeClients == {"reset", "pipeline", "split", "cut"}
FinAndEdit == {"fin", "edit"}
PipelineOnly == {"pipeline"}
SplitOnly == {"split"}
LeaveOnly == {"leave"}
NoNames == {}
BareNames == {bare, folder}
JustFolder == {folder}
MCIndexNames == <<index>>
\* When clients may pipeline, view is read by no action.
WithoutView == <<server, peer, inbox, disk>>
StreamSymmetry == Permutations(Streams)

Get(name) == [method |-> "GET", uri |-> "ok", dir |-> FALSE, name |-> name,
              version |-> "1.1", host |-> TRUE, connection |-> "none",
              length |-> "none", if_modified |-> "none",
              if_unmodified |-> "none", range |-> NoRange, auth |-> "none"]
Closing(req) == [req EXCEPT !.connection = "close"]

PostTo(name) == [Get(name) EXCEPT !.method = "POST"]

\* A file with keep-alive, another without, and the index of the directory.
KeepAliveGets == {Get(index), Closing(Get(page)), [Get(index) EXCEPT !.dir = TRUE]}

\* A transfer, a request for the same file that is answered by a header, and a
\* range of another that is answered at once.
RichRequests == {Closing(Get(page)), [Get(page) EXCEPT !.if_modified = "same"],
                 Closing([Get(index) EXCEPT !.range = <<0, 2>>])}

\* Every verdict of SESSION_prepare but 503, which takes two clients, and every
\* branch of REQUEST_process and RESPONSE_file, by GET and POST.
AllKinds ==
  {Get(index), Get(page), Closing(Get(page)),
   [Get(page) EXCEPT !.version = "1.0"],
   [Get(page) EXCEPT !.method = "other"],
   [Get(page) EXCEPT !.uri = "long"],
   [Get(index) EXCEPT !.dir = TRUE],
   [Get(index) EXCEPT !.dir = TRUE, !.uri = "dots"],
   [Get(page) EXCEPT !.host = FALSE],
   [Get(page) EXCEPT !.version = "other"],
   [Get(page) EXCEPT !.length = "short"],
   [Get(page) EXCEPT !.length = "huge"],
   PostTo(page),
   [PostTo(page) EXCEPT !.length = "whole"],
   [PostTo(secret) EXCEPT !.length = "whole", !.auth = "good"],
   Get(secret),
   [Get(secret) EXCEPT !.auth = "good"],
   Get(locked), Get(missing), Get(bare), Get(folder), Get(empty),
   [Get(page) EXCEPT !.if_modified = "same"],
   [Get(page) EXCEPT !.if_unmodified = "other"],
   [Get(page) EXCEPT !.range = <<0, 2>>],      \* 206
   [Get(page) EXCEPT !.range = <<5, 7>>],      \* 206, then nothing can be read
   [Get(page) EXCEPT !.range = <<5, 6>>],      \* 416: no length
   [Get(page) EXCEPT !.range = <<-1, 12>>]}    \* 416: a negative start

ClosingGets == {Closing(Get(index)), Closing(Get(page))}
SelectGets == {Closing(Get(page)), Get(index)}
Posts == {[PostTo(missing) EXCEPT !.length = "whole"]}
Conditional == {Closing(Get(page)), [Get(page) EXCEPT !.if_modified = "same"]}
=============================================================================
