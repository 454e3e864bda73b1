SPECIFICATION MCFairSpec
CONSTANTS
  None = None
  Elsewhere = Elsewhere
  house = house
  note = note
  idea = idea
  plan = plan
  project = project
  section = section
  page = page
  task = task
  ideaPage = ideaPage
  planPage = planPage
  Entities = {house, note, idea}
  Intents = {project, section, task, ideaPage}
  Objects = {o1, o2, o3, o4, o5}
  Titles = {t1, t2}
  EntityKind <- MCEntityKind
  EntityOf <- MCEntityOf
  KindOf <- MCKindOf
  Rank <- MCRank
  MaxPerPass = 3
  MaxEdits = 3
  MaxFaults = 1
INVARIANT ReferencesAgree SectionInOwnProject
PROPERTY OnceSpec SatisfiedIsFinal Drained
