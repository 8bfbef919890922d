\* Two of everything that can be confused with another: libraries, tasks, scenes,
\* notes, lists, projects, assets, DCCs, dialogs.
SPECIFICATION Spec
CONSTANTS
    lib1 = lib1  lib2 = lib2  mani = mani  whole = whole  raw = raw
    Libs = {lib1, lib2}
    Contents = {mani, raw}
    CachedAs <- CachedAsOf
    Files <- SavedFiles
    Unlinked = Unlinked
    Tasks = {t1, t2}
    NoTask = NoTask
    Notes = {n1, n2}
    Scenes = {s1, s2}
    Jobs = {j1}
    SharedTasks = {t1, t2}
    NoPick = NoPick
    Launched = t1
    MaxRefreshes = 2
    Notices = {a1, a2}
    InboxLimit = 1
    MaxPolls = 2
    MaxLoads = 1
    ListNames = {projects, assets}
    Failed = Failed
    NoList = NoList
    Getters = {g1, g2}
    MaxEdits = 1
    Projects = {pr1, pr2}
    NoProject = NoProject
    MaxRequests = 2
    prop = prop  set = set  model = model  rig = rig  usd = usd
    Assets = {prop, set}
    Stages = {model, rig}
    Reps = {usd, Blend}
    Blend = Blend
    Catalogs <- CatalogsOf
    Unset = Unset
    Dccs = {d1, d2}
    DccFiles = {f1}
    NoFile = NoFile
    NoDcc = NoDcc
    Clicks = {k1}
    MinSize = 2
    MaxSize = 4
    Window = 3
    FileSizes = {0, 1, 4, 7, 8}
    SceneInfos <- Infos
    Contexts <- ContextsOf
    NoContext = NoContext
    Unread = Unread
    NoRange = NoRange
    Windows = {palette1, review1, review2}
    SelfDeleting = {review1, review2}
INVARIANTS
    TypesOK  WindowsTellTruth NotesAreOfTheirTask ListsAgree
    ClicksAskForOneThing ChunksTile VisibleIsPumped
PROPERTIES TicksLostOnlyWhenFixed BarIsOfThisFile WorkEnds
