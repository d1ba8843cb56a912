---------------------------- MODULE MCStreamCore ----------------------------
(* Protocols for StreamCore. *)
EXTENDS StreamCore

NoHandlers == [r \in Handled |-> << >>]
Protocol(commands, handlers, onInit) == [commands |-> commands, handlers |-> handlers, onInit |-> onInit]

\* A request and its reply: a line that does not match is parsed again, a missing one asked for again.
Retry == [NoHandlers EXCEPT !["ScanError"] = <<"in">>, !["ReplyTimeout"] = <<"out", "in">>]
Query == Protocol(<<"out", "in">>, NoHandlers, << >>)
QueryRetry == Protocol(<<"out", "in">>, Retry, << >>)
Lines == Protocol(<<"out", "in", "in">>, NoHandlers, << >>)
WaitQuery == Protocol(<<"out", "wait", "out", "in">>, NoHandlers, << >>)
ExecQuery == Protocol(<<"out", "exec", "out", "in">>, NoHandlers, << >>)
ConnectQuery == Protocol(<<"connect", "out", "in">>, NoHandlers, << >>)
HangUp == Protocol(<<"out", "disconnect">>, NoHandlers, << >>)
InitQuery == Protocol(<<"out", "in">>, NoHandlers, <<"out", "in">>)
EventQuery == Protocol(<<"out", "event", "in">>, NoHandlers, << >>)

\* Without a loss of the connection; one stream runs them, the other one competes for the device.
MCQuietProtocols == {QueryRetry, Lines, WaitQuery, ExecQuery, ConnectQuery, HangUp, InitQuery, EventQuery}
First == CHOOSE s \in Streams : TRUE
MCProtocols == [s \in Streams |-> IF s = First THEN MCQuietProtocols ELSE {Query}]

\* With a loss of the connection. A connect command is left out: it takes a late exception for its answer.
MCLossyProtocols == [s \in Streams |-> MCQuietProtocols \ {ConnectQuery}]

\* Once a record has been processed during its @init, no property says anything: later states are not explored.
Undisturbed == ~interfered

=============================================================================
