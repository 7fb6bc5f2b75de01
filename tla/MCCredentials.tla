-------------------------- MODULE MCCredentials --------------------------
(* Values of Credentials' constants for TLC. *)
EXTENDS Credentials

\* Any one volume, or the two of the keys, as `compose down -v` takes them.
KeyVolumes  == {{"private", "public"}, {"public"}, {"private"}, {"out"}}
NothingLost == {}
=============================================================================
