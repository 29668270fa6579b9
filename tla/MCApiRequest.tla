---------------------------- MODULE MCApiRequest ----------------------------
(* A one-chunk chunked body, and three multipart bodies sent without       *)
(* chunked encoding: a well-formed one, one whose first "--" is not the    *)
(* boundary, and one that ends before its closing delimiter.  Responses   *)
(* are empty, one byte, or three bytes (a full MAX_CHUNK chunk and one).   *)
EXTENDS ApiRequest

MCBodies == {<< <<"a">> >>}

MCRaws == {<<"-", "-", "q", "CR", "LF", "CR", "LF", "y", "CR", "LF", "-", "-", "q", "-", "-", "CR", "LF">>,
           <<"-", "-", "y">>,
           <<"-", "-", "q", "CR", "LF", "CR", "LF", "y">>}
MCRespBodies == {<<>>, <<"y">>, <<"y", "y", "y">>}
====
