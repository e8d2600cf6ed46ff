--------------------------- MODULE MCQconnFraming ---------------------------
(* QconnFraming on a small instance, and the telnet filters against the      *)
(* telnet units they are to filter out.                                      *)
EXTENDS QconnFraming

P == INSTANCE Pidin

MCAnswers == <<"a1", "a2", "a3">>
MCPayloads == {<<>>, <<"iac", "P">>, <<"sp", "nl", "P">>}
MCNegotiations == {<<>>, <<"iac", "do", "opt">>, <<"iac", "wont", "opt">>}
MCPid == <<"1", "2">>
MCChildOutput == <<"nl", "OK", "1">>

Commands == {<<"iac", o, b>> : o \in Options, b \in {"opt", "se", "sb"}}
       \cup {<<"iac", "sb">> \o b \o <<"iac", "se">> :
              b \in {<<>>, <<"x">>, <<"se", "x">>, <<"sb", "do">>, <<"iac", "iac", "x">>}}
       \cup {<<"iac", "nop">>, <<"iac", "iac">>}

\* A subnegotiation with an escaped 0xFF before an SE byte.
EarlySE(b, c) == <<"iac", "sb">> \o b \o <<"iac", "iac", "se">> \o c \o <<"iac", "se">>
Bodies == {<<>>, <<"x">>}
Early == {EarlySE(b, c) : b, c \in Bodies}
AfterSE(u) == CHOOSE c \in Bodies : \E b \in Bodies : u = EarlySE(b, c)

Data == {<<"x">>, <<"se">>, <<"do">>}

\* readByte delivers exactly the data of a stream of data and whole telnet
\* commands.  So does stripIAC, except where a subnegotiation has an escaped 0xFF
\* before an SE byte: it takes the two for the end and leaves what follows them in
\* the result, so that the two filters differ there (handleIAC, stripIAC).
CommandsStripped ==
  Init => \A s \in [1..3 -> Commands \cup Early \cup Data] :
    LET kept(u) == IF u \in Data THEN u ELSE <<>>
        left(u) == IF u \in Early THEN AfterSE(u) ELSE kept(u)
        all == FlattenSeq(s)
    IN  /\ Delivered(all) = FlattenSeq([i \in 1..3 |-> kept(s[i])])
        /\ stripIAC(all) = FlattenSeq([i \in 1..3 |-> left(s[i])])

\* What ListProcesses, ProcessInfo and ProcessMemory report of a listing that Exec
\* returned in part is true of the whole, but for the end of its last row
\* (sysinfo.go).
CutListingsAreTrue == Init => P!CutListingsAreTrue
=============================================================================
