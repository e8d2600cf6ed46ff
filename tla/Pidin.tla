-------------------------------- MODULE Pidin --------------------------------
(***************************************************************************)
(* How sysinfo.go reads pidin's listings.  A line is the sequence of its   *)
(* fields (strings.Fields); a field is a number, or a negative value for a *)
(* word that strconv.Atoi refuses.                                         *)
(***************************************************************************)
EXTENDS Integers, Sequences, SequencesExt

IsNumber(f) == f >= 0

-----------------------------------------------------------------------------
(* The parsers *)

\* A line of the thread listing: pid tid name prio STATE [Blocked...].
IsThread(f) == Len(f) >= 5 /\ IsNumber(f[1]) /\ IsNumber(f[2])

ThreadOf(f) ==
  [tid |-> f[2], priority |-> f[4], state |-> f[5], blocked |-> SubSeq(f, 6, Len(f))]

\* Variant of AddThread: every row begins the process anew.
AddThreadAnew(procs, f) ==
  LET i == SelectInSeq(procs, LAMBDA p : p.pid = f[1])
      new == [pid |-> f[1], name |-> f[3], threads |-> <<ThreadOf(f)>>]
  IN IF i = 0 THEN Append(procs, new) ELSE [procs EXCEPT ![i] = new]

\* byPid and order, as the sequence of processes found so far.
AddThread(procs, f) ==
  LET i == SelectInSeq(procs, LAMBDA p : p.pid = f[1])
      new == [pid |-> f[1], name |-> f[3], threads |-> <<ThreadOf(f)>>]
  IN IF i = 0 THEN Append(procs, new)
              ELSE [procs EXCEPT ![i].threads = Append(@, ThreadOf(f))]

parsePidinThreads(out) == FoldLeft(AddThread, <<>>, SelectSeq(out, IsThread))

\* parsePidinMem: the first line of each process, its last three fields as
\* code, data and stack.
AddMem(res, f) ==
  LET n == Len(f)
      old == \E i \in DOMAIN res : res[i].pid = f[1]
  IN IF old THEN res
            ELSE Append(res, [pid |-> f[1], name |-> f[3], code |-> f[n - 2],
                              data |-> f[n - 1], stack |-> f[n]])

parsePidinMem(out) ==
  FoldLeft(AddMem, <<>>, SelectSeq(out, LAMBDA f : Len(f) >= 6 /\ IsNumber(f[1])))

NoName == -99

\* The process asked for, the only one listed, or one without name and threads.
ProcessInfo(out, pid) ==
  LET procs == parsePidinThreads(out)
      i == SelectInSeq(procs, LAMBDA p : p.pid = pid)
  IN IF i # 0 THEN procs[i]
     ELSE IF Len(procs) = 1 THEN procs[1]
     ELSE [pid |-> pid, name |-> NoName, threads |-> <<>>]

-----------------------------------------------------------------------------
(* Listings that end early *)

\* Rows of processes 1 and 12, a header, and a row without thread columns.
Lines == {<<1, 1, -2, -4, -5>>, <<12, 1, -3, -4, -5>>, <<12, 12, -3, -4, -6, -7, 12>>,
          <<-1, -1, -1, -1, -1, -1>>, <<1, 12, -2>>}

\* The first k fields of a line, the last of them whole or cut short: 12 becomes 1
\* and a word another word.
Short(f) == IF f < 0 THEN f - 10 ELSE IF f > 9 THEN f \div 10 ELSE f
CutLine(f, k) == {SubSeq(f, 1, k), [SubSeq(f, 1, k) EXCEPT ![k] = Short(@)]}

\* The listing ends inside line n, after k fields.
CutListings(out, n, k) == {Append(SubSeq(out, 1, n - 1), f) : f \in CutLine(out[n], k)}

\* A cut row tells the truth about a thread, but for a state that is cut short
\* and for a blocker that is missing or cut short.
TrueButForEnd(t, u) ==
  /\ t.tid = u.tid /\ t.priority = u.priority
  /\ t.state = u.state \/ (t.state = Short(u.state) /\ t.blocked = <<>>)
  /\ t.blocked = <<>> \/ \E n \in DOMAIN u.blocked : t.blocked \in CutLine(u.blocked, n)

\* Is p, found in a listing cut in a row of process last, true of q in the whole?
\* Its first threads are, all but the one the cut row adds in every respect.
TrueOf(p, q, last) ==
  /\ p.pid = q.pid /\ p.name = q.name /\ Len(p.threads) <= Len(q.threads)
  /\ \A i \in DOMAIN p.threads :
       \/ p.threads[i] = q.threads[i]
       \/ p.pid = last /\ i = Len(p.threads) /\ TrueButForEnd(p.threads[i], q.threads[i])

\* Exec returns what came before the output paused.  Of a listing that ends
\* anywhere, inside a line, a word or a number, ListProcesses reports the first
\* processes of the whole listing, in its order, each once with its first threads,
\* and no other; only the state and the blocker of the very last row may be cut
\* short.  ProcessInfo reports no thread that the process it names does not have.
\* ProcessMemory reports the first processes too, all but the last with their sizes.
CutListingsAreTrue ==
  \A out \in BoundedSeq(Lines, 3) :
    LET whole == parsePidinThreads(out)
        mem   == parsePidinMem(out) IN
    /\ \A i, j \in DOMAIN whole : whole[i].pid = whole[j].pid => i = j
    /\ \A n \in DOMAIN out : \A k \in 1..Len(out[n]) : \A cut \in CutListings(out, n, k) :
         LET part  == parsePidinThreads(cut)
             sizes == parsePidinMem(cut)
         IN /\ Len(part) <= Len(whole)
            /\ \A i \in DOMAIN part : TrueOf(part[i], whole[i], out[n][1])
            /\ \A pid \in {1, 12} :
                 LET p == ProcessInfo(cut, pid)
                 IN p.threads = <<>> \/ \E i \in DOMAIN whole : TrueOf(p, whole[i], out[n][1])
            /\ Len(sizes) <= Len(mem)
            /\ \A i \in DOMAIN sizes : \/ sizes[i] = mem[i]
                                       \/ /\ i = Len(sizes) /\ sizes[i].pid = out[n][1]
                                          /\ sizes[i].pid = mem[i].pid /\ sizes[i].name = mem[i].name
=============================================================================
