--------------------------- MODULE MCHttpSession ---------------------------
(***************************************************************************)
(* Requests for checking HttpSession, with the answer the spec prescribes *)
(* for each: the status and body the test server gives its target, and    *)
(* the connection header of the keep-alive rule of spec section 4.5.      *)
(***************************************************************************)
EXTENDS HttpSession

\* POST /echo with a three-byte body that fits the buffer.
EchoReq == Chars("POST /echo 1.1\r\nH:x\r\ncontent-length:3\r\n\r\nabc")
EchoAns == [code |-> 200, body |-> Chars("abc"), conn |-> "keep-alive"]

\* POST /large with a body too big for the 48-byte buffer: it is streamed
\* and the handler pulls it chunk by chunk.
LargeReq == Chars("POST /large 1.1\r\nH:x\r\ncontent-length:9\r\n\r\nabcdefghi")
LargeAns == [code |-> 200, body |-> Chars("abcdefghi"), conn |-> "keep-alive"]

\* An HTTP/1.0 GET with no Connection header: answered, then closed.
EmptyReq == Chars("GET /empty 1.0\r\nH:x\r\n\r\n")
EmptyAns == [code |-> 200, body |-> <<>>, conn |-> "close"]

MCReqs == <<EchoReq, LargeReq, EmptyReq>>
MCExpected == <<EchoAns, LargeAns, EmptyAns>>

\* Sends end at the request boundaries and inside the headers and bodies.
MCCuts == {20, 42, 44, 64, 90, 95, 118}

-----------------------------------------------------------------------------
(* Requests on which the code and the spec disagree.                      *)

\* Spec section 8, scenario 3, shortened: a chunked upload to /large.
ChunkedReq == Chars("POST /large 1.1\r\nH:x\r\ntransfer-encoding:chunked\r\n\r\n3\r\nabc\r\n0\r\n\r\n")
ChunkedAns == [code |-> 200, body |-> Chars("abc"), conn |-> "keep-alive"]
ChunkedReqs == <<ChunkedReq>>
ChunkedExpected == <<ChunkedAns>>
\* Sends end after the chunk size line, after the chunk data, and at the end.
ChunkedCuts == {54, 57, 64}

\* HTTP/1.1 with Connection: close after a ten-byte header name.
CloseReq == Chars("GET /empty 1.1\r\nUser-Agent:x\r\nConnection:close\r\n\r\n")
CloseAns == [code |-> 200, body |-> <<>>, conn |-> "close"]
CloseReqs == <<CloseReq>>
CloseExpected == <<CloseAns>>

\* A head of 56 bytes, every token shorter than request_token_max_len:
\* spec section 5 answers a head that outgrows the buffer with ERROR, 400.
OversizeReq == Chars("GET /empty 1.1\r\nH:xxxxxxxxxxxxxxxx\r\nX:xxxxxxxxxxxxxx\r\n\r\n")
OversizeReqs == <<OversizeReq>>
OversizeExpected == <<[code |-> 400, body |-> Chars("Bad request"), conn |-> "close"]>>

\* A 41-byte head and a Content-Length of 8: seven body bytes fit the
\* 48-byte buffer, so spec section 8 routes it to BODY_STREAM.
TightReq == Chars("POST /echo 1.1\r\nH:x\r\ncontent-length:8\r\n\r\nabcdefgh")
TightAns == [code |-> 200, body |-> Chars("abcdefgh"), conn |-> "keep-alive"]
TightReqs == <<TightReq>>
TightExpected == <<TightAns>>
\* The last body byte arrives in a send of its own.
TightCuts == {48, 49}

\* Two requests sent back to back.
PipeReqs == <<EchoReq, Chars("GET /empty 1.1\r\nH:x\r\n\r\n")>>
PipeExpected == <<EchoAns, [code |-> 200, body |-> <<>>, conn |-> "keep-alive"]>>

\* An HTTP/1.1 request whose header name holds an illegal byte.
BadReq == Chars("GET /empty 1.1\r\nH@:x\r\n\r\n")
BadReqs == <<BadReq>>
BadExpected == <<[code |-> 400, body |-> Chars("Bad request"), conn |-> "close"]>>

\* The end of every request set, for runs that send each request whole.
WholeCuts == {End(j) : j \in 1 .. Len(Reqs)}

=============================================================================
