\* Two connections with room for two of three sessions: claims evict and take
\* over, and a question can time out before its successor is answered.
SPECIFICATION Spec
CONSTANTS
  Conns = {c1, c2}
  Sessions = {s1, s2, s3}
  Turns = {t1, t2}
  None = None
  Cap = 2
  MaxQuestions = 2
SYMMETRY Symmetry
INVARIANT ClientsLive
 
PROPERTY QuestionsServed
