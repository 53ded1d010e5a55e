------------------------------ MODULE MCStartup -----------------------------
(* Protocol names and command lines for model checking Startup. *)
EXTENDS Startup

Parts == {"tcp", "quic", "relay"}

\* No name, the old one, and every list of different parts.
MCNames ==
  {<<>>, <<"libp2p">>} \cup
  UNION {{n \in [1 .. k -> Parts] : \A i, j \in 1 .. k : i # j => n[i] # n[j]} : k \in 1 .. 3}

MCArgs == {{"--secret-key-seed", "--addr-file"}, {"--addr-file", "--port"}}
=============================================================================
