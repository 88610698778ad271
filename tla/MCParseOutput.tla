---------------------------- MODULE MCParseOutput ----------------------------
(* Names and numbers for the run of ParseOutput. *)
EXTENDS ParseOutput

MCCharacters == {"f", "0", "1", "7", ":", "?", " ", Newline}

MCNumbers == {<<"1">>, <<"7", "0">>}

\* A name that looks like a file and a line is unambiguous in front of two numbers,
\* which addr2line does not print.
MCNames == [style \in Styles |->
              IF style = "addr2line" THEN {<<"f">>, <<"7", "7">>, <<"?", "f", ":">>}
                                     ELSE {<<"f">>, <<"f", ":", "7">>}]

=============================================================================
