---------------------------- MODULE MCTcpClient ----------------------------
(* An instance of TcpClient with the delays of the code.  Channels are     *)
(* interchangeable, and CHOOSE takes the same free one in every state.     *)
EXTENDS TcpClient
=============================================================================
