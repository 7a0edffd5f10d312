------------------------------ MODULE MCGetenv ------------------------------
(* TLC instance of Getenv: a native client, and one of Java or of Python. *)
EXTENDS Getenv

MCThreads == {1, 2}
MCKinds   == {<<"native", "java">>, <<"native", "python">>}

=============================================================================
