----------------------------- MODULE MCWsServer -----------------------------
(***************************************************************************)
(* Requests at and past the caps: a block that fits, one that does not, a  *)
(* spend past its own cap, a subscription and a list.                      *)
(***************************************************************************)
EXTENDS WsServer, TLC

MCSizeOf == ("fits" :> 3) @@ ("long" :> 6) @@ ("spend" :> 2) @@ ("join" :> 1) @@ ("list" :> 1)
MCKindOf == ("fits" :> "submitblock") @@ ("long" :> "submitblock")
            @@ ("spend" :> "sendtransaction") @@ ("join" :> "subscribe") @@ ("list" :> "list")
=============================================================================
