------------------------- MODULE PullRequestComment -------------------------
(***************************************************************************)
(* The one comment that the diffs of a pull request are to share: each     *)
(* looks through the pull request's comments page by page for the newest   *)
(* that carries relcoord's marker, then edits that one, or posts one if it *)
(* found none (GithubIssueCommenter).  A diff first clones the config      *)
(* repository, and its comment goes by the same cached token.              *)
(*                                                                         *)
(* GitHub is external: it lists comments oldest first, and other people    *)
(* post and delete comments meanwhile.  DiffGeneration has what a diff     *)
(* does between its clone and its comment.                                 *)
(***************************************************************************)
EXTENDS InstallationTokens, FiniteSets, Sequences, SequencesExt

CONSTANTS
  PageSize,     \* comments on a page
  MaxPages,     \* pages looked through
  MaxComments,  \* bound: comments a pull request gets to have
  Deletions     \* bound: comments that are deleted

ASSUME CommentAssumption ==
  /\ PageSize \in Nat \ {0}
  /\ MaxPages \in Nat \ {0}
  /\ MaxComments \in Nat \ {0, 1}
  /\ Deletions \in Nat
  /\ "somebody" \notin Thread

VARIABLES
  comments,  \* the pull request's comments, oldest first
  posted,    \* how many were ever posted; a comment's id is its number
  deleted,   \* how many were deleted
  doing,     \* where each diff is
  page,      \* the page each asks for next
  found,     \* the id of the newest marked comment each has seen; 0 for none
  missed     \* whether a diff may have missed a comment: one changed while it
             \* was looking, was further back than it looks, or was left out of
             \* a page (history)

commentVars == <<comments, posted, deleted, doing, page, found, missed>>
pullVars == <<tokenVars, commentVars>>

Id == 1..MaxComments
Author == Thread \union {"earlier", "somebody"}
CommentIs(id, by) == [id |-> id, by |-> by]

CommentTypeOK ==
  /\ TokenTypeOK
  /\ comments \in Seq([id : Id, by : Author])
  /\ posted \in 0..MaxComments
  /\ deleted \in 0..Deletions
  /\ doing \in [Thread -> {"clone", "diff", "credentials", "list", "write",
                           "posted", "failed"}]
  /\ page \in [Thread -> 1..MaxPages]
  /\ found \in [Thread -> 0..MaxComments]
  /\ missed \in BOOLEAN

\* Diffs that missed before may have left more than one marked comment.
CommentInit ==
  /\ TokenInit
  /\ \E n \in 0..2 : \E by \in [1..n -> {"earlier", "somebody"}] :
       /\ comments = [i \in 1..n |-> CommentIs(i, by[i])]
       /\ posted = n
  /\ deleted = 0
  /\ doing = [d \in Thread |-> "clone"]
  /\ page = [d \in Thread |-> 1]
  /\ found = [d \in Thread |-> 0]
  /\ missed = FALSE

Marked(c) == c.by # "somebody"
MarkedIds(s) == {s[i].id : i \in {i \in DOMAIN s : Marked(s[i])}}
NewestOf(ids) == IF ids = {} THEN 0 ELSE CHOOSE i \in ids : \A j \in ids : j <= i

Goto(d, place) == doing' = [doing EXCEPT ![d] = place]
Looking == {d \in Thread : doing[d] \in {"list", "write"}}

-----------------------------------------------------------------------------
StartClone(d) ==
  /\ doing[d] = "clone"
  /\ op[d].state = "idle"
  /\ op' = [op EXCEPT ![d] = Starting]
  /\ UNCHANGED <<cache, issued, reused, refusedUpTo, commentVars>>

CloneRepo(d) ==
  /\ doing[d] = "clone"
  /\ CredentialStep(d) \/ TryStep(d)
  /\ UNCHANGED commentVars

EndClone(d) ==
  /\ doing[d] = "clone"
  /\ \/ op[d].state = "ok" /\ Goto(d, "diff")
     \/ op[d].state \in {"unauthorized", "unavailable", "noCredentials"}
        /\ Goto(d, "failed")
  /\ UNCHANGED <<tokenVars, comments, posted, deleted, page, found, missed>>

\* The diff is made, or fails and is not commented on.
Diff(d) ==
  /\ doing[d] = "diff"
  /\ \/ Goto(d, "credentials") /\ op' = [op EXCEPT ![d] = Starting]
     \/ Goto(d, "failed") /\ UNCHANGED op
  /\ UNCHANGED <<cache, issued, reused, refusedUpTo, comments, posted, deleted, page,
                 found, missed>>

\* The comment's credentials are obtained once; nothing tries them again.
Credentials(d) ==
  /\ doing[d] = "credentials"
  /\ CredentialStep(d)
  /\ UNCHANGED commentVars

EndCredentials(d) ==
  /\ doing[d] = "credentials"
  /\ \/ op[d].state = "try" /\ Goto(d, "list")
     \/ op[d].state = "noCredentials" /\ Goto(d, "failed")
  /\ UNCHANGED <<tokenVars, comments, posted, deleted, page, found, missed>>

-----------------------------------------------------------------------------
\* Mutant: the first page is the only one looked at.
FirstPageOnly(d, length) == TRUE

\* The search goes on after a full page and ends with any other.
LastPage(d, length) == length < PageSize \/ page[d] = MaxPages

\* Mutant: the oldest marked comment is the one edited.
OldestSeen(d, ids) ==
  IF found[d] # 0 \/ ids = {} THEN found[d] ELSE CHOOSE i \in ids : \A j \in ids : i <= j

NewestSeen(d, ids) == IF ids = {} THEN found[d] ELSE NewestOf(ids)

PageOf(d) ==
  LET start == (page[d] - 1) * PageSize
  IN  SubSeq(comments, start + 1, Min({start + PageSize, Len(comments)}))

\* A page is gone through that seems to have so many comments, these marked.
GoThrough(d, ids, length) ==
  /\ doing[d] = "list"
  /\ Accepted(d)
  /\ found' = [found EXCEPT ![d] = NewestSeen(d, ids)]
  /\ IF LastPage(d, length)
       THEN Goto(d, "write") /\ UNCHANGED page
       ELSE page' = [page EXCEPT ![d] = @ + 1] /\ UNCHANGED doing
  /\ UNCHANGED <<tokenVars, comments, posted, deleted>>

\* One page is fetched as the comments stand at the time.
List(d) ==
  /\ GoThrough(d, MarkedIds(PageOf(d)), Len(PageOf(d)))
  /\ missed' = (missed \/ (page[d] = MaxPages /\ Len(PageOf(d)) = PageSize))

\* An answer that is not a list counts as a page without comments, an entry of
\* the list that is no object as not there, and one without its id or its body
\* as not marked.
ListMalformed(d) ==
  /\ \E ids \in SUBSET MarkedIds(PageOf(d)) : \E length \in 0..Len(PageOf(d)) :
       /\ Cardinality(ids) <= length
       /\ ids # MarkedIds(PageOf(d)) \/ length # Len(PageOf(d))
       /\ GoThrough(d, ids, length)
  /\ missed' = TRUE

Post(d) ==
  /\ found[d] = 0
  /\ posted < MaxComments
  /\ comments' = Append(comments, CommentIs(posted + 1, d))
  /\ posted' = posted + 1

Edit(d) ==
  /\ found[d] \in {comments[i].id : i \in DOMAIN comments}
  /\ comments' = [i \in DOMAIN comments |->
                    IF comments[i].id = found[d] THEN CommentIs(found[d], d)
                    ELSE comments[i]]
  /\ UNCHANGED posted

\* A comment may be written and the answer lost.
Write(d) ==
  /\ doing[d] = "write"
  /\ Accepted(d)
  /\ Post(d) \/ Edit(d)
  /\ Goto(d, "posted") \/ Goto(d, "failed")
  /\ missed' = (missed \/ Looking # {d})
  /\ UNCHANGED <<tokenVars, deleted, page, found>>

\* GitHub refuses the token, does not find the comment any more, or fails.
CommentFails(d) ==
  /\ doing[d] \in {"list", "write"}
  /\ Goto(d, "failed")
  /\ UNCHANGED <<tokenVars, comments, posted, deleted, page, found, missed>>

CommentStep(d) ==
  \/ StartClone(d) \/ CloneRepo(d) \/ EndClone(d) \/ Diff(d)
  \/ Credentials(d) \/ EndCredentials(d) \/ List(d) \/ ListMalformed(d)
  \/ Write(d) \/ CommentFails(d)

-----------------------------------------------------------------------------
SomebodyPosts ==
  /\ Looking # {}
  /\ posted < MaxComments
  /\ comments' = Append(comments, CommentIs(posted + 1, "somebody"))
  /\ posted' = posted + 1
  /\ UNCHANGED <<tokenVars, deleted, doing, page, found, missed>>

SomebodyDeletes ==
  /\ Looking # {}
  /\ deleted < Deletions
  /\ \E i \in DOMAIN comments : comments' = RemoveAt(comments, i)
  /\ deleted' = deleted + 1
  /\ missed' = TRUE
  /\ UNCHANGED <<tokenVars, posted, doing, page, found>>

CommentsEnded ==
  /\ \A d \in Thread : doing[d] \in {"posted", "failed"}
  /\ UNCHANGED pullVars

CommentNext ==
  \/ \E d \in Thread : CommentStep(d)
  \/ TokenEnvironment /\ UNCHANGED commentVars
  \/ SomebodyPosts \/ SomebodyDeletes
  \/ CommentsEnded

CommentSpec == CommentInit /\ [][CommentNext]_pullVars

-----------------------------------------------------------------------------
(* Properties *)

\* A second comment is posted only if a diff may have missed the first: another
\* wrote or a comment was deleted while it looked, there were more pages than are
\* looked through, or GitHub's answer left comments out (README: a pull request
\* "should not collect a diff comment per push").
SecondOnlyIfMissed ==
  [][ MarkedIds(comments') \ MarkedIds(comments) # {} =>
        MarkedIds(comments) = {} \/ missed' ]_pullVars

\* Unless a comment may have been missed, a diff that comments leaves its body in
\* the newest of relcoord's comments, so that no earlier diff stands below it
\* (_existing_comment_id).
NewestIsEdited ==
  [][ \A d \in Thread :
        doing[d] = "write" /\ doing'[d] = "posted" /\ ~missed' =>
          \E i \in DOMAIN comments' :
            /\ comments'[i].id = NewestOf(MarkedIds(comments'))
            /\ comments'[i].by = d ]_pullVars

-----------------------------------------------------------------------------
(* Why the properties last, for the proofs *)

MarkedUpTo(n) ==
  {comments[i].id : i \in {i \in DOMAIN comments : i <= n /\ Marked(comments[i])}}

\* A comment's id is greater than those before it.
IdsAscend ==
  /\ \A i \in DOMAIN comments : comments[i].id <= posted
  /\ \A i, j \in DOMAIN comments : i < j => comments[i].id < comments[j].id

NotLookedYet ==
  \A d \in Thread :
    doing[d] \in {"clone", "diff", "credentials"} => page[d] = 1 /\ found[d] = 0

\* A diff has found the newest marked comment of the pages it has looked
\* through, and in the end of all.
FoundTheNewest ==
  \A d \in Thread :
    /\ doing[d] = "list" =>
         /\ (page[d] - 1) * PageSize <= Len(comments)
         /\ found[d] = NewestOf(MarkedUpTo((page[d] - 1) * PageSize))
    /\ doing[d] = "write" => found[d] = NewestOf(MarkedIds(comments))

CommentInvariant ==
  /\ CommentTypeOK
  /\ NotLookedYet
  /\ ~missed => IdsAscend /\ FoundTheNewest
==============================================================================
