------------------------------ MODULE MCServer ------------------------------
(* Small instances of WebioServer for TLC. *)
EXTENDS WebioServer, TLC

CONSTANTS c1, c2

Page == [cmd |-> "GET", hdr |-> 1, body |-> 0, pairs |-> "none", kind |-> "TEXT",
         need |-> 1, ssi |-> 0, args |-> "none", form |-> "page", auth |-> TRUE, far |-> FALSE]

Thick    == [Page EXCEPT !.need = 3]
PageSSI  == [Page EXCEPT !.ssi = 1, !.pairs = "ok"]
BadArgs  == [PageSSI EXCEPT !.args = "bad"]
OpenSSI  == [Page EXCEPT !.ssi = 2, !.args = "ok"]
Image    == [Page EXCEPT !.kind = "BINARY", !.need = 3]
PostForm == [Page EXCEPT !.cmd = "POST", !.body = 2, !.kind = "FORM"]
GetForm  == [Page EXCEPT !.kind = "FORM", !.form = "error", !.pairs = "ok"]
LostForm == [Page EXCEPT !.kind = "FORM", !.form = "missing"]
Printed  == [Page EXCEPT !.kind = "FORM", !.form = "stay"]
NullForm == [PostForm EXCEPT !.body = 1, !.form = "null"]
Rejected == [Page EXCEPT !.pairs = "bad"]
Push     == [Page EXCEPT !.kind = "PUSH"]
NullPush == [Push EXCEPT !.form = "null"]
BigPost  == [PostForm EXCEPT !.body = 3]
Slow     == [Page EXCEPT !.hdr = 2]
BigPut   == [Slow EXCEPT !.cmd = "PUT", !.body = 1]
Put      == [Page EXCEPT !.cmd = "PUT"]
Other    == [Page EXCEPT !.cmd = "OTHER"]
NoFile   == [Page EXCEPT !.kind = "NONE"]
NoArg    == [Page EXCEPT !.kind = "BADARG"]
NoAuth   == [Page EXCEPT !.auth = FALSE]
Far      == [Page EXCEPT !.far = TRUE]

MixRequests == {PageSSI, [PostForm EXCEPT !.body = 1], Push}
Film     == [Image EXCEPT !.need = 5]
StalledRequests == {BigPost}
SsiRequests == {[PostForm EXCEPT !.body = 1, !.ssi = 1]}
FilmRequests == {Film}
LiveRequests == {Slow, Image, BigPut}
AllRequests == {Page, Thick, PageSSI, BadArgs, OpenSSI, Image, PostForm, BigPost, GetForm,
                LostForm, Printed, NullForm, Rejected, Push, NullPush, Put, Other, NoFile,
                NoArg, NoAuth, Far}

Clients == Permutations(Conn)

=============================================================================
