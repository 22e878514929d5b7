---------------------------- MODULE MCRedClient ----------------------------
(* Instances of RedClient for TLC.  One QXL device is a display and a cursor *)
(* with one worker; a second device has a worker of its own.                *)
EXTENDS RedClient

OneDevice == "display" :> "w1" @@ "cursor" :> "w1" @@ "display2" :> "w2"

Use(kinds, chans) == [kinds |-> kinds, chans |-> chans, late |-> FALSE, torn |-> FALSE]

(* One client with two devices, or two clients with one.                    *)
Prompt == {Use(<<"fresh">>, {"display", "display2"}),
           Use(<<"seamless">>, {"display", "display2"})}
          \cup {Use(<<k>>, {"display", "cursor"}) : k \in Kinds}
          \cup {Use(<<"seamless">>, {"display", "inputs"}),
                Use(<<"fresh", "seamless">>, {"display"}),
                Use(<<"semi", "fresh">>, {"display"}),
                Use(<<"seamless", "fresh">>, {"display"})}

(* The worker may be slow to handle a CONNECT.                              *)
Late == {[Use(<<"fresh">>, {"display"}) EXCEPT !.late = TRUE]}
=============================================================================
