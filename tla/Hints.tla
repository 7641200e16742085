------------------------------- MODULE Hints -------------------------------
(***************************************************************************)
(* wrapper.cpp: trim, read_hints and find_key.  The hints that a program   *)
(* passes to libximc name the network adapter and the like:                *)
(* "key1=val1\nkey2=val2" (comment at read_hints).                         *)
(*                                                                         *)
(* A string is a sequence of characters, and of these only the ones that   *)
(* the functions look for are told apart.  Positions count from 1, where   *)
(* the code counts from 0; NPos stands for std::string::npos.              *)
(***************************************************************************)
EXTENDS Naturals, Sequences, FiniteSetsExt

Break == "break"    \* \n and \r
Blank == "blank"    \* a space and \t
Equals == "="
NUL == "NUL"

NPos == 0

(* s.find_first_of(c, from), and the positions that are not blank.         *)
FirstOf(s, c, from) ==
  LET found == {i \in from .. Len(s) : s[i] = c}
  IN  IF found = {} THEN NPos ELSE Min(found)

NotBlank(s) == {i \in DOMAIN s : s[i] # Blank}

trimLeftOnly(s) ==  \* faulty variant: blanks at the end stay
  IF NotBlank(s) = {} THEN <<>> ELSE SubSeq(s, Min(NotBlank(s)), Len(s))

trim(s) ==
  IF NotBlank(s) = {} THEN <<>>
  ELSE SubSeq(s, Min(NotBlank(s)), Max(NotBlank(s)))

(* The parameters with the one of a line entered: a line without "=" is    *)
(* passed over, a key that is there already gets the new value.            *)
Entered(parameters, next) ==
  LET inner_delim_pos == FirstOf(next, Equals, 1)
      key == trim(SubSeq(next, 1, inner_delim_pos - 1))
      val == trim(SubSeq(next, inner_delim_pos + 1, Len(next)))
  IN  IF inner_delim_pos = NPos THEN parameters
      ELSE [k \in DOMAIN parameters \cup {key} |->
              IF k = key THEN val ELSE parameters[k]]

(* The loop: a round takes the line up to the next break after pos, so     *)
(* that the first character of the source is never taken for a break.      *)
Start == [pos |-> 1, last_pos |-> 1, parameters |-> <<>>]

Round(source, loop) ==
  LET pos == FirstOf(source, Break, loop.pos + 1)
      end == IF pos = NPos THEN Len(source) ELSE pos - 1
      next == trim(SubSeq(source, loop.last_pos, end))
  IN  IF loop.pos = NPos THEN loop
      ELSE [pos |-> pos, last_pos |-> pos + 1,
            parameters |-> Entered(loop.parameters, next)]

read_hints(source) ==
  LET after[n \in 0 .. Len(source) + 1] ==
        IF n = 0 THEN Start ELSE Round(source, after[n - 1])
  IN  after[Len(source) + 1].parameters

(* strncpy(buf, val, length): the value is cut or filled up with NULs, and *)
(* one of length characters or more leaves no NUL at its end.              *)
strncpy(val, length) == [i \in 1 .. length |-> IF i <= Len(val) THEN val[i] ELSE NUL]

find_key(hints, key, length) ==
  LET hinted_parameters == read_hints(hints)
  IN  IF key \in DOMAIN hinted_parameters
        THEN [found |-> TRUE, buf |-> strncpy(hinted_parameters[key], length)]
        ELSE [found |-> FALSE, buf |-> <<>>]

-----------------------------------------------------------------------------
(* The format of the comment, without the loop.  A line <<i, e, j>> is what *)
(* lies between two breaks, with its first "=" at e.  A source of the      *)
(* format does not begin with a break; in one that does, the first         *)
(* character is part of the first line, and of its key.                    *)
Breaks(source) == {i \in DOMAIN source : i > 1 /\ source[i] = Break}

Starts(source) == {i \in DOMAIN source : i = 1 \/ i - 1 \in Breaks(source)}
Ends(source) == {j \in DOMAIN source : j = Len(source) \/ j + 1 \in Breaks(source)}
Delims(source) == {e \in DOMAIN source : source[e] = Equals}

Lines(source) ==
  {line \in Starts(source) \X Delims(source) \X Ends(source) :
     /\ line[1] <= line[2] /\ line[2] <= line[3]
     /\ \A n \in line[1] .. line[3] : n \notin Breaks(source)
     /\ \A n \in line[1] .. line[2] - 1 : source[n] # Equals}

(* A text without the blanks around it: the longest that begins and ends   *)
(* with something else.                                                    *)
Stripped(text) ==
  LET Parts == {part \in (DOMAIN text) \X (DOMAIN text) :
                  /\ part[1] <= part[2]
                  /\ text[part[1]] # Blank /\ text[part[2]] # Blank}
      Longest == CHOOSE part \in Parts :
                   \A other \in Parts : other[2] - other[1] <= part[2] - part[1]
  IN  IF Parts = {} THEN <<>> ELSE SubSeq(text, Longest[1], Longest[2])

KeyOf(source, line) == Stripped(SubSeq(source, line[1], line[2] - 1))
ValueOf(source, line) == Stripped(SubSeq(source, line[2] + 1, line[3]))

(* The value for a key is that of the last line with this key.             *)
Documented(source) ==
  LET lines == Lines(source)
      LastFor(key) ==
        CHOOSE line \in lines :
          /\ KeyOf(source, line) = key
          /\ \A other \in lines : KeyOf(source, other) = key => other[1] <= line[1]
  IN  [key \in {KeyOf(source, line) : line \in lines} |-> ValueOf(source, LastFor(key))]

(* What find_key gives for a key, there or not, is what the hints say of   *)
(* it, cut to the length of the caller's buffer or filled up with NULs.    *)
FoundAsDocumented(source, length) ==
  LET hinted == Documented(source) IN
  \A key \in DOMAIN hinted \cup DOMAIN read_hints(source) :
    LET found == find_key(source, key, length) IN
    /\ key \in DOMAIN hinted /\ found.found
    /\ Len(found.buf) = length
    /\ \A n \in 1 .. length :
         found.buf[n] = IF n <= Len(hinted[key]) THEN hinted[key][n] ELSE NUL
=============================================================================
