---------------------------- MODULE MCHttpSocket ----------------------------
(* HttpSocket for TLC: a request without headers, one with headers and a   *)
(* body that reads like the end of a line, one whose body is shorter than  *)
(* it says, and responses with a status phrase of two words and an empty   *)
(* or a two-byte body.                                                     *)
EXTENDS HttpSocket

MCTexts ==
  {"SP", "CR", "LF", "pointer", "HTTP/1.1", "200", "404", "OK", "Location",
   "Content-Type", "Content-Length", "Server", "GET", "POST", "/", "/x", "Host",
   "Not", "Found", "b"}
MCKinds == {"svr", "cli"}
MCRequests ==
  {[line |-> <<<<Word("GET")>>, <<Word("/")>>, <<Word("HTTP/1.1")>>>>,
    headers |-> <<>>, body |-> <<>>],
   [line |-> <<<<Word("POST")>>, <<Word("/x")>>, <<Word("HTTP/1.1")>>>>,
    headers |-> <<<<Word("Host")>>, <<LengthLine(2)>>>>, body |-> CRLF],
   [line |-> <<<<Word("GET")>>, <<Word("/")>>, <<Word("HTTP/1.1")>>>>,
    headers |-> <<<<LengthLine(3)>>>>, body |-> <<CR>>]}
MCPhrase == <<Word("Not"), SP, Word("Found")>>
MCBodies == {<<>>, <<Word("b"), CR>>}
=============================================================================
