-------------------------------- MODULE MCFs --------------------------------
EXTENDS Fs

CONSTANTS p1, p2

Abs(e) == [abs |-> TRUE, elems |-> e]
Rel(e) == [abs |-> FALSE, elems |-> e]

Dir(i, parent, links, ents) ==
    [type |-> "dir", nlink |-> links,
     ents |-> [n \in {"a", "b", ".", ".."} |->
                IF n = "." THEN i ELSE IF n = ".." THEN parent ELSE ents[n]],
     stray |-> FALSE]
File(links) ==
    [type |-> "file", nlink |-> links, ents |-> [n \in {"a", "b", ".", ".."} |-> 0],
     stray |-> FALSE]
Free == [File(0) EXCEPT !.type = "none"]
Two(x, y) == [n \in {"a", "b"} |-> IF n = "a" THEN x ELSE y]

\* /a is a directory that holds the file b, linked also as /b.
Tree == <<Dir(1, 1, 2, Two(2, 3)), Dir(2, 1, 1, Two(0, 3)), File(2), Free>>
\* /a/b is an empty directory; an orphan was left by a power failure.
Deep == <<Dir(1, 1, 2, Two(2, 0)), Dir(2, 1, 2, Two(0, 3)), Dir(3, 2, 1, Two(0, 0)),
          File(0)>>
\* /a is an empty directory.
Bare == <<Dir(1, 1, 2, Two(2, 0)), Dir(2, 1, 1, Two(0, 0)), Free, Free>>
MCImages == {Tree, Deep}
BareImages == {Bare}

MCSyscalls ==
    {<<"open", Abs(<<"b">>)>>, <<"open", Abs(<<"a", "b", "..">>)>>,
     <<"chdir", Abs(<<"a", "b">>)>>,
     <<"creat", Abs(<<"a", "a">>)>>, <<"mkdir", Rel(<<"b">>)>>, <<"mknod", Rel(<<"a">>)>>,
     <<"unlink", Abs(<<"a">>)>>, <<"unlink", Abs(<<"a", "b">>)>>,
     <<"link", Abs(<<"b">>)>>}
MCNewPaths == {Abs(<<"a", "a">>), Rel(<<"b">>)}

\* A processor with nothing left to do idles, and a panic stops the machine: any
\* other state without a successor is a deadlock.
Idle ==
    /\ \/ panicked # "no"
       \/ calls + crashes >= MaxCalls /\ \A p \in Procs : pc[p] = "user"
    /\ UNCHANGED vars
MCSpec == Init /\ [][Next \/ Idle]_vars

=============================================================================
